---- MODULE Spec2Model ----
(***************************************************************************)
(* Verification model of the nimbul pipeline core                          *)
(* (coding-cave-dev/nimbul, apps/nimbul-api/internal).                     *)
(*                                                                         *)
(* Part 1: the manifest override engine (package nimbulconfig:             *)
(*         ApplyOverrides, matchesResource, setValueAtPath, parsePath,     *)
(*         navigateTo, setValue).                                          *)
(* Part 2: the config validator (package nimbulconfig: Validate,           *)
(*         validateBuild, validateDeploy, validateManifest,                *)
(*         validateOverride).                                              *)
(* Part 3: the template renderer (package nimbulconfig:                    *)
(*         NewTemplateContext, RenderString, transformBuildTagSyntax).     *)
(* Part 4: the config renderer (package nimbulconfig: RenderConfig).       *)
(* Part 5: the pipeline orchestrator (package webhooks: HandlePushEvent).  *)
(* Part 6: the helper functions of package webhooks (parseImageTag,        *)
(*         normalizeRefForTag, extractBranch).                             *)
(* Part 7: two concurrent runs of HandlePushEvent and their workspaces.    *)
(***************************************************************************)
EXTENDS Integers, Sequences, FiniteSets, TLC

VARIABLES
    \* ---- ApplyOverrides(docs, overrides) ----
    docs,        \* the documents, mutated in place by the call
    overrides,   \* the override list of the manifest
    docs0,       \* the documents as they were when the call started
    di,          \* position of the outer loop (1-based)
    oi,          \* position of the inner loop (1-based)
    pc,          \* "loop" while the call runs, "returned" afterwards
    err,         \* the error the call returned (NoErr for nil)
    calls,       \* the <<doc, override>> pairs handed to setValueAtPath
    \* ---- Validate(config) ----
    cfg,         \* the part of the config Validate has read so far
    vpc,         \* "version", "builds", "deploys", "returned"
    verr,        \* the error Validate returned (NoVErr for nil)
    buildNames,  \* the buildNames map of Validate
    deployNames, \* the deployNames map of Validate
    \* ---- RenderString(tmpl, ctx), transformBuildTagSyntax(tmpl) ----
    tmpl,        \* the template string handed to the calls
    tctx,        \* the TemplateContext handed to RenderString
    tx,          \* what transformBuildTagSyntax(tmpl) returned
    tres,        \* what RenderString(tmpl, tctx) returned: out and err
    tdone,       \* the calls that have returned
    \* ---- RenderConfig(config, ctx) ----
    rconfig,     \* the config handed to the call; Tags hold slice addresses
    rctx,        \* the context handed to the call; BUILD_TAGS is an address
    heap,        \* the backing arrays of the []string slices, by address
    rendered,    \* the config under construction
    deployCtxs,  \* the per-deploy contexts made so far
    rpc,         \* "builds", "deploys", "returned"
    rres,        \* what the call returned: config, nil, err
    \* ---- HandlePushEvent(ctx, config, pushEvent) ----
    ev,          \* the push event: repo, ref, headSHA, headID
    ppc,         \* the statement the run is at
    stages,      \* the stages of the run entered so far, in order
    workRef,     \* ref
    pcommit,     \* commitSHA
    tempDir,     \* TRUE once os.MkdirTemp has made the workspace
    pcfg,        \* nimbulConfig
    pctx,        \* templateCtx
    prendered,   \* renderedConfig
    ppos,        \* the positions of the build and deploy loops
    log,         \* the external calls made so far, in order
    perr,        \* the error the run returned ("" for nil)
    cancelled,   \* TRUE once ctx is done
    cancelAt,    \* how many external calls had been made when ctx was done
    \* ---- parseImageTag(imageTag), normalizeRefForTag(ref, commitSHA),
    \*      extractBranch(ref) ----
    callIn,      \* the arguments: imageTag, ref, commitSHA
    callOut,     \* what the three functions returned
    callDone,    \* the calls that have returned
    \* ---- two concurrent runs of HandlePushEvent ----
    fs,          \* the temporary directories: name -> content, or Absent
    runs,        \* per run: its event, statement, tempDir, reads and error
    \* ---- ParseManifestBytes(data) ----
    data,        \* the bytes of the manifest file, as pieces
    documents,   \* strings.Split(string(data), "---")
    mi,          \* position of the loop over documents
    decoded,     \* the texts handed to yaml.Unmarshal so far, in order
    parsed,      \* result
    merr,        \* the error returned: the index of the document, -1 for nil
    mpc          \* position of the call

ovars == <<docs, overrides, docs0, di, oi, pc, err, calls>>
vvars == <<cfg, vpc, verr, buildNames, deployNames>>
tvars == <<tmpl, tctx, tx, tres, tdone>>
rvars == <<rconfig, rctx, heap, rendered, deployCtxs, rpc, rres>>
pvars == <<ev, ppc, stages, workRef, pcommit, tempDir, pcfg, pctx, prendered, ppos,
           log, perr, cancelled, cancelAt>>
hvars == <<callIn, callOut, callDone>>
cvars == <<fs, runs>>
mvars == <<data, documents, mi, decoded, parsed, merr, mpc>>
vars  == <<ovars, vvars, tvars, rvars, pvars, hvars, cvars, mvars>>

\* the variables of the other components, left alone by each component
besidesOverrides == <<vvars, tvars, rvars, pvars, hvars, cvars, mvars>>
besidesValidate  == <<ovars, tvars, rvars, pvars, hvars, cvars, mvars>>
besidesTemplate  == <<ovars, vvars, rvars, pvars, hvars, cvars, mvars>>
besidesRender    == <<ovars, vvars, tvars, pvars, hvars, cvars, mvars>>
besidesPipeline  == <<ovars, vvars, tvars, rvars, hvars, cvars, mvars>>
besidesHelpers   == <<ovars, vvars, tvars, rvars, pvars, cvars, mvars>>
besidesRuns      == <<ovars, vvars, tvars, rvars, pvars, hvars, mvars>>
besidesParse     == <<ovars, vvars, tvars, rvars, pvars, hvars, cvars>>

\* the renderer before any call
TemplateIdle ==
    /\ tmpl = <<>>
    /\ tctx = <<>>
    /\ tx = <<>>
    /\ tres = <<>>
    /\ tdone = {"idle"}

\* the config renderer before any call
RenderIdle ==
    /\ rconfig = <<>>
    /\ rctx = <<>>
    /\ heap = <<>>
    /\ rendered = <<>>
    /\ deployCtxs = <<>>
    /\ rpc = "idle"
    /\ rres = <<>>

\* the orchestrator before any run
PipelineIdle ==
    /\ ev = <<>>
    /\ ppc = "idle"
    /\ stages = <<>>
    /\ workRef = <<>>
    /\ pcommit = <<>>
    /\ tempDir = FALSE
    /\ pcfg = <<>>
    /\ pctx = <<>>
    /\ prendered = <<>>
    /\ ppos = <<>>
    /\ log = <<>>
    /\ perr = ""
    /\ cancelled = FALSE
    /\ cancelAt = 0

\* the helper functions before any call
HelpersIdle ==
    /\ callIn = <<>>
    /\ callOut = <<>>
    /\ callDone = {"idle"}

\* no concurrent runs
RunsIdle ==
    /\ fs = <<>>
    /\ runs = <<>>

\* the manifest parser before any call
ParseIdle ==
    /\ data = <<>>
    /\ documents = <<>>
    /\ mi = 1
    /\ decoded = <<>>
    /\ parsed = <<>>
    /\ merr = -1
    /\ mpc = "idle"

(***************************************************************************)
(* Bounds of the model.                                                    *)
(***************************************************************************)
MaxDocs      == 2
MaxOverrides == 2
MaxBuilds    == 2
MaxDeploys   == 2

(***************************************************************************)
(* Generic documents: what yaml.Unmarshal produces in a                    *)
(* map[string]interface{}.  Every value carries its dynamic type, so that  *)
(* the type assertions of the code are decided by the tag.                 *)
(***************************************************************************)
Str(s)  == [t |-> "str",  v |-> s]
Num(n)  == [t |-> "num",  v |-> n]
Bool(b) == [t |-> "bool", v |-> b]
Map(f)  == [t |-> "map",  v |-> f]
SeqV(s) == [t |-> "seq",  v |-> s]
EmptyMap == Map(<<>>)

IsMap(x) == x.t = "map"
IsSeq(x) == x.t = "seq"
IsStr(x) == x.t = "str"

\* m[key] = val on a Go map
MapPut(m, key, val) ==
    Map([k \in (DOMAIN m.v) \cup {key} |-> IF k = key THEN val ELSE m.v[k]])

(***************************************************************************)
(* Paths.  A path string is modelled as the sequence of its lexical        *)
(* pieces: ".", "[", "]", "-", single digits, and maximal runs of other    *)
(* characters (key names).  Concatenating the pieces gives the string.     *)
(***************************************************************************)
Digits == {"0", "1", "2", "3", "4", "5", "6", "7", "8", "9"}

DigitVal(d) ==
    CASE d = "0" -> 0 [] d = "1" -> 1 [] d = "2" -> 2 [] d = "3" -> 3
      [] d = "4" -> 4 [] d = "5" -> 5 [] d = "6" -> 6 [] d = "7" -> 7
      [] d = "8" -> 8 [] d = "9" -> 9

RECURSIVE Join(_)
Join(toks) == IF toks = <<>> THEN "" ELSE Head(toks) \o Join(Tail(toks))

\* number of digit pieces of path starting at position i
RECURSIVE digitRun(_, _)
digitRun(path, i) ==
    IF i <= Len(path) /\ path[i] \in Digits THEN 1 + digitRun(path, i + 1) ELSE 0

\* number of pieces other than "." of path starting at position i
RECURSIVE nonDotRun(_, _)
nonDotRun(path, i) ==
    IF i <= Len(path) /\ path[i] # "." THEN 1 + nonDotRun(path, i + 1) ELSE 0

\* regexp (\[[\d]+\]|[^.]+), FindAllString(path, -1): leftmost match, the
\* first alternative preferred where it matches, the second one greedy.
RECURSIVE findAll(_, _)
findAll(path, i) ==
    IF i > Len(path) THEN <<>>
    ELSE IF path[i] = "." THEN findAll(path, i + 1)
    ELSE LET n == digitRun(path, i + 1)
             m == nonDotRun(path, i)
         IN  IF path[i] = "[" /\ n >= 1 /\ i + 1 + n <= Len(path) /\ path[i + 1 + n] = "]"
             THEN <<SubSeq(path, i, i + 1 + n)>> \o findAll(path, i + n + 2)
             ELSE <<SubSeq(path, i, i + m - 1)>> \o findAll(path, i + m)

parsePath(path) == findAll(path, 1)

(***************************************************************************)
(* Errors of the override engine.                                          *)
(***************************************************************************)
NoErr == [kind |-> "none", want |-> "", index |-> 0, length |-> 0]
AtoiErr == [kind |-> "atoi", want |-> "", index |-> 0, length |-> 0]
EmptyPathErr == [kind |-> "empty path", want |-> "", index |-> 0, length |-> 0]
TypeErr(w) == [kind |-> "type", want |-> w, index |-> 0, length |-> 0]
IndexErr(i, n) == [kind |-> "index", want |-> "", index |-> i, length |-> n]

\* strconv.Atoi on the pieces between the brackets: an optional sign and at
\* least one digit (the pieces of the model are short, no overflow)
RECURSIVE decimal(_, _)
decimal(toks, acc) ==
    IF toks = <<>> THEN acc ELSE decimal(Tail(toks), 10 * acc + DigitVal(Head(toks)))

allDigits(toks) == toks # <<>> /\ \A k \in 1..Len(toks) : toks[k] \in Digits

Atoi(toks) ==
    IF allDigits(toks) THEN [ok |-> TRUE, n |-> decimal(toks, 0)]
    ELSE IF toks # <<>> /\ Head(toks) = "-" /\ allDigits(Tail(toks))
         THEN [ok |-> TRUE, n |-> 0 - decimal(Tail(toks), 0)]
    ELSE IF toks # <<>> /\ Head(toks) = "+" /\ allDigits(Tail(toks))
         THEN [ok |-> TRUE, n |-> decimal(Tail(toks), 0)]
    ELSE [ok |-> FALSE, n |-> 0]

\* strings.HasPrefix(segment, "[") && strings.HasSuffix(segment, "]")
isIndexSegment(segment) ==
    Len(segment) >= 2 /\ segment[1] = "[" /\ segment[Len(segment)] = "]"

indexStr(segment) == SubSeq(segment, 2, Len(segment) - 1)

\* navigateTo(current, segment): err, the value returned, and current as the
\* call leaves it (a missing map key is created)
navigateTo(current, segment) ==
    IF isIndexSegment(segment)
    THEN LET a == Atoi(indexStr(segment))
         IN  IF ~a.ok THEN [err |-> AtoiErr, value |-> EmptyMap, cur |-> current]
             ELSE IF ~IsSeq(current)
                  THEN [err |-> TypeErr("array"), value |-> EmptyMap, cur |-> current]
             ELSE IF a.n < 0 \/ a.n >= Len(current.v)
                  THEN [err |-> IndexErr(a.n, Len(current.v)), value |-> EmptyMap, cur |-> current]
             ELSE [err |-> NoErr, value |-> current.v[a.n + 1], cur |-> current]
    ELSE IF ~IsMap(current)
         THEN [err |-> TypeErr("map"), value |-> EmptyMap, cur |-> current]
    ELSE IF Join(segment) \notin DOMAIN current.v
         THEN [err |-> NoErr, value |-> EmptyMap, cur |-> MapPut(current, Join(segment), EmptyMap)]
    ELSE [err |-> NoErr, value |-> current.v[Join(segment)], cur |-> current]

\* setValue(current, segment, value): err and current as the call leaves it
setValue(current, segment, value) ==
    IF isIndexSegment(segment)
    THEN LET a == Atoi(indexStr(segment))
         IN  IF ~a.ok THEN [err |-> AtoiErr, cur |-> current]
             ELSE IF ~IsSeq(current)
                  THEN [err |-> TypeErr("array"), cur |-> current]
             ELSE IF a.n < 0 \/ a.n >= Len(current.v)
                  THEN [err |-> IndexErr(a.n, Len(current.v)), cur |-> current]
             ELSE [err |-> NoErr, cur |-> SeqV([current.v EXCEPT ![a.n + 1] = value])]
    ELSE IF ~IsMap(current)
         THEN [err |-> TypeErr("map"), cur |-> current]
    ELSE [err |-> NoErr, cur |-> MapPut(current, Join(segment), value)]

\* the value `child` put back where navigateTo(cur, segment) found it: the
\* code mutates the child in place, which the parent sees
putChild(cur, segment, child) ==
    IF isIndexSegment(segment)
    THEN SeqV([cur.v EXCEPT ![Atoi(indexStr(segment)).n + 1] = child])
    ELSE MapPut(cur, Join(segment), child)

\* variant: a failure takes back the mappings made on the way to it
RECURSIVE walkPath_undo(_, _, _)
walkPath_undo(current, parts, value) ==
    IF Len(parts) = 1 THEN setValue(current, parts[1], value)
    ELSE LET nav == navigateTo(current, parts[1])
         IN  IF nav.err # NoErr THEN [err |-> nav.err, cur |-> current]
             ELSE LET rest == walkPath_undo(nav.value, Tail(parts), value)
                  IN  IF rest.err # NoErr THEN [err |-> rest.err, cur |-> current]
                      ELSE [err |-> NoErr, cur |-> putChild(nav.cur, parts[1], rest.cur)]

\* the loop of setValueAtPath over parts[:len(parts)-1] followed by setValue
RECURSIVE walkPath(_, _, _)
walkPath(current, parts, value) ==
    IF Len(parts) = 1 THEN setValue(current, parts[1], value)
    ELSE LET nav == navigateTo(current, parts[1])
         IN  IF nav.err # NoErr THEN [err |-> nav.err, cur |-> nav.cur]
             ELSE LET rest == walkPath(nav.value, Tail(parts), value)
                  IN  [err |-> rest.err, cur |-> putChild(nav.cur, parts[1], rest.cur)]

\* the calls of navigateTo that the loop over parts[:len(parts)-1] makes,
\* in order: the arguments and the result of each
RECURSIVE navigations(_, _)
navigations(current, parts) ==
    IF Len(parts) <= 1 THEN <<>>
    ELSE LET nav == navigateTo(current, parts[1])
         IN  <<[current |-> current, segment |-> parts[1], nav |-> nav]>>
             \o (IF nav.err # NoErr THEN <<>> ELSE navigations(nav.value, Tail(parts)))

setValueAtPath(doc, path, value) ==
    LET parts == parsePath(path)
    IN  IF Len(parts) = 0 THEN [err |-> EmptyPathErr, cur |-> doc]
        ELSE walkPath(doc, parts, value)

\* strings.ToLower on the kind spellings the model uses; EqualFold(a, b) is
\* ToLower(a) = ToLower(b) on them
ToLower(s) ==
    CASE s \in {"Deployment", "deployment", "DEPLOYMENT"} -> "deployment"
      [] s \in {"Service", "service"} -> "service"
      [] s \in {"ConfigMap", "configmap"} -> "configmap"
      [] s \in {"Secret", "secret"} -> "secret"
      [] s \in {"Ingress", "ingress"} -> "ingress"
      [] s \in {"StatefulSet", "statefulset"} -> "statefulset"
      [] s \in {"DaemonSet", "daemonset"} -> "daemonset"
      [] s \in {"Job", "job"} -> "job"
      [] s \in {"CronJob", "cronjob", "cronJob"} -> "cronjob"
      [] s \in {"PersistentVolumeClaim", "persistentvolumeclaim"} -> "persistentvolumeclaim"
      [] s \in {"Pod", "pod"} -> "pod"
      [] s \in {"ReplicaSet", "replicaset"} -> "replicaset"
      [] s \in {"Namespace", "namespace"} -> "namespace"
      [] s \in {"ServiceAccount", "serviceaccount"} -> "serviceaccount"
      [] OTHER -> s

EqualFold(a, b) == ToLower(a) = ToLower(b)

nameMatches(doc, match) ==
    IF match.Name # ""
    THEN IF ~("metadata" \in DOMAIN doc.v /\ IsMap(doc.v["metadata"]))
         THEN FALSE
         ELSE LET metadata == doc.v["metadata"]
              IN  "name" \in DOMAIN metadata.v /\ IsStr(metadata.v["name"])
                  /\ metadata.v["name"].v = match.Name
    ELSE TRUE

\* variant: the kind comparison is dropped
matchesResource_anyKind(doc, match) == nameMatches(doc, match)

\* variant: the kind comparison ignores case
matchesResource_fold(doc, match) ==
    /\ "kind" \in DOMAIN doc.v /\ IsStr(doc.v["kind"])
    /\ EqualFold(doc.v["kind"].v, match.Kind)
    /\ nameMatches(doc, match)

\* variant: an empty Match.Kind is a wildcard
matchesResource_wildcard(doc, match) ==
    /\ match.Kind = "" \/ ("kind" \in DOMAIN doc.v /\ IsStr(doc.v["kind"])
                           /\ doc.v["kind"].v = match.Kind)
    /\ nameMatches(doc, match)

\* matchesResource(doc, match)
matchesResource(doc, match) ==
    IF ~("kind" \in DOMAIN doc.v /\ IsStr(doc.v["kind"]) /\ doc.v["kind"].v = match.Kind)
    THEN FALSE
    ELSE nameMatches(doc, match)

(***************************************************************************)
(* Inputs of ApplyOverrides: manifests as ParseManifestBytes can return    *)
(* them (any YAML mapping is accepted) and overrides as a validated or     *)
(* unvalidated config can hold them.                                       *)
(***************************************************************************)
Containers == SeqV(<<Map([name |-> Str("app"), image |-> Str("img:old")])>>)

\* a Deployment named web with one container
DeploymentDoc ==
    Map([kind |-> Str("Deployment"),
         metadata |-> Map([name |-> Str("web")]),
         spec |-> Map([replicas |-> Num(3),
                       template |-> Map([spec |-> Map([containers |-> Containers])])])])

\* a Deployment named db with an empty container list and no replicas
EmptyDeploymentDoc ==
    Map([kind |-> Str("Deployment"),
         metadata |-> Map([name |-> Str("db")]),
         spec |-> Map([paused |-> Bool(TRUE),
                       template |-> Map([spec |-> Map([containers |-> SeqV(<<>>)])])])])

\* a Service without metadata.name
ServiceDoc ==
    Map([kind |-> Str("Service"),
         metadata |-> Map([labels |-> Map([tier |-> Str("edge")])]),
         spec |-> Map([ports |-> SeqV(<<Num(80)>>)])])

\* `kind: ""`, no metadata
EmptyKindDoc == Map([kind |-> Str(""), spec |-> Map([replicas |-> Num(1)])])

\* `kind: 3`, `metadata: {name: 7}`
NumKindDoc == Map([kind |-> Num(3), metadata |-> Map([name |-> Num(7)])])

\* no kind key, metadata is not a mapping
NoKindDoc == Map([metadata |-> Str("web"), spec |-> Map([replicas |-> Num(1)])])

DocPool ==
    {DeploymentDoc, EmptyDeploymentDoc, ServiceDoc, EmptyKindDoc, NumKindDoc, NoKindDoc}

ImagePath    == <<"spec", ".", "template", ".", "spec", ".", "containers", "[", "0", "]", ".", "image">>
DotImagePath == <<"spec", ".", "template", ".", "spec", ".", "containers", ".", "[", "0", "]", ".", "image">>
FarImagePath == <<"spec", ".", "template", ".", "spec", ".", "containers", ".", "[", "5", "]", ".", "image">>
ReplicasPath == <<"spec", ".", "replicas">>
PausedPath   == <<"spec", ".", "paused", ".", "until">>
UntilPath    == <<"spec", ".", "paused", ".", "until", ".", "hour">>
KindPath     == <<"kind">>
PortPath     == <<"spec", ".", "ports", ".", "[", "-", "1", "]">>

Override(path, kind, name, value) ==
    [Path |-> path, Match |-> [Kind |-> kind, Name |-> name], Value |-> value]

OverridePool ==
    { Override(ImagePath, "Deployment", "", "img:new"),
      Override(DotImagePath, "Deployment", "web", "img:new"),
      Override(FarImagePath, "Deployment", "", "img:new"),
      Override(ReplicasPath, "Deployment", "", "5"),
      Override(ReplicasPath, "deployment", "", "5"),
      Override(ReplicasPath, "", "", "5"),
      Override(PausedPath, "Deployment", "db", "noon"),
      Override(UntilPath, "Deployment", "", "9"),
      Override(KindPath, "Service", "", "Deployment"),
      Override(PortPath, "Service", "", "8080") }

RECURSIVE SeqsUpTo(_, _)
SeqsUpTo(S, n) ==
    IF n = 0 THEN {<<>>}
    ELSE LET shorter == SeqsUpTo(S, n - 1)
         IN  shorter \cup {Append(q, x) : q \in {r \in shorter : Len(r) = n - 1}, x \in S}

(***************************************************************************)
(* The validator (validate.go).  An error is the message of the innermost  *)
(* fmt.Errorf together with the chain of "build[i]", "deploy[i]",          *)
(* "manifest[i]", "override[i]" prefixes wrapped around it.                *)
(***************************************************************************)
NoVErr == [at |-> <<>>, msg |-> ""]
VErr(at, msg) == [at |-> at, msg |-> msg]
Wrap(prefix, e) == IF e = NoVErr THEN NoVErr ELSE [at |-> prefix \o e.at, msg |-> e.msg]

\* the first error of a sequence of results, NoVErr when there is none
RECURSIVE FirstError(_)
FirstError(errs) ==
    IF errs = <<>> THEN NoVErr
    ELSE IF Head(errs) # NoVErr THEN Head(errs) ELSE FirstError(Tail(errs))

validKinds ==
    <<"Deployment", "Service", "ConfigMap", "Secret", "Ingress",
      "StatefulSet", "DaemonSet", "Job", "CronJob", "PersistentVolumeClaim">>

\* variant: the kind is compared with ==
validateOverride_exactCase(override, index) ==
    IF override.Path = <<>> THEN VErr(<<>>, "path is required")
    ELSE IF override.Value = "" THEN VErr(<<>>, "value is required")
    ELSE IF override.Match.Kind # ""
            /\ ~\E k \in 1..Len(validKinds) : override.Match.Kind = validKinds[k]
         THEN VErr(<<>>, "is not a recognized Kubernetes resource type")
    ELSE NoVErr

validateOverride(override, index) ==
    IF override.Path = <<>> THEN VErr(<<>>, "path is required")
    ELSE IF override.Value = "" THEN VErr(<<>>, "value is required")
    ELSE IF override.Match.Kind # ""
            /\ ~\E k \in 1..Len(validKinds) : EqualFold(override.Match.Kind, validKinds[k])
         THEN VErr(<<>>, "is not a recognized Kubernetes resource type")
    ELSE NoVErr

validateManifest(manifest, index) ==
    IF manifest.Path = "" THEN VErr(<<>>, "path is required")
    ELSE FirstError([k \in 1..Len(manifest.Overrides) |->
                        Wrap(<<"override", k - 1>>,
                             validateOverride(manifest.Overrides[k], k - 1))])

\* variant: the duplicate check is missing
validateBuild_noDuplicate(build, index, names) ==
    IF build.Name = "" THEN VErr(<<"build", index>>, "name is required")
    ELSE IF build.Dockerfile = "" THEN VErr(<<"build", index>>, "dockerfile is required")
    ELSE IF Len(build.Tags) = 0 THEN VErr(<<"build", index>>, "at least one tag is required")
    ELSE NoVErr

\* variant: the required fields are all checked before the name is looked up
validateBuild_requiredFirst(build, index, names) ==
    IF build.Name = "" THEN VErr(<<"build", index>>, "name is required")
    ELSE IF build.Dockerfile = "" THEN VErr(<<"build", index>>, "dockerfile is required")
    ELSE IF Len(build.Tags) = 0 THEN VErr(<<"build", index>>, "at least one tag is required")
    ELSE IF build.Name \in names THEN VErr(<<"build", index>>, "duplicate build name")
    ELSE NoVErr

validateBuild(build, index, names) ==
    IF build.Name = "" THEN VErr(<<"build", index>>, "name is required")
    ELSE IF build.Name \in names THEN VErr(<<"build", index>>, "duplicate build name")
    ELSE IF build.Dockerfile = "" THEN VErr(<<"build", index>>, "dockerfile is required")
    ELSE IF Len(build.Tags) = 0 THEN VErr(<<"build", index>>, "at least one tag is required")
    ELSE NoVErr

\* variant: the buildId is not looked up
validateDeploy_noLookup(deploy, index, dnames, bnames) ==
    IF deploy.Name = "" THEN VErr(<<"deploy", index>>, "name is required")
    ELSE IF deploy.Name \in dnames THEN VErr(<<"deploy", index>>, "duplicate deploy name")
    ELSE IF deploy.BuildID = "" THEN VErr(<<"deploy", index>>, "buildId is required")
    ELSE IF Len(deploy.Manifests) = 0
         THEN VErr(<<"deploy", index>>, "at least one manifest is required")
    ELSE FirstError([i \in 1..Len(deploy.Manifests) |->
                        Wrap(<<"deploy", index, "manifest", i - 1>>,
                             validateManifest(deploy.Manifests[i], i - 1))])

validateDeploy(deploy, index, dnames, bnames) ==
    IF deploy.Name = "" THEN VErr(<<"deploy", index>>, "name is required")
    ELSE IF deploy.Name \in dnames THEN VErr(<<"deploy", index>>, "duplicate deploy name")
    ELSE IF deploy.BuildID = "" THEN VErr(<<"deploy", index>>, "buildId is required")
    ELSE IF deploy.BuildID \notin bnames
         THEN VErr(<<"deploy", index>>, "does not reference an existing build")
    ELSE IF Len(deploy.Manifests) = 0
         THEN VErr(<<"deploy", index>>, "at least one manifest is required")
    ELSE FirstError([i \in 1..Len(deploy.Manifests) |->
                        Wrap(<<"deploy", index, "manifest", i - 1>>,
                             validateManifest(deploy.Manifests[i], i - 1))])

(***************************************************************************)
(* Inputs of Validate: whatever Parse can decode, valid or not.            *)
(***************************************************************************)
Versions == {"1", "2", ""}

BuildPool ==
    [Name : {"", "api", "web"}, Dockerfile : {"", "Dockerfile"}, Context : {"."},
     Tags : {<<>>, <<"img:{{ .COMMIT_SHORT }}">>}]

GoodOverrides ==
    { Override(ImagePath, "", "", "img:v1"),
      Override(ImagePath, "Deployment", "", "img:v1"),
      Override(ImagePath, "deployment", "", "img:v1"),
      Override(ReplicasPath, "DEPLOYMENT", "web", "2"),
      Override(ReplicasPath, "persistentvolumeclaim", "", "2") }

BadOverrides ==
    { Override(ImagePath, "Pod", "", "img:v1"),
      Override(ImagePath, "ReplicaSet", "", "img:v1"),
      Override(<<>>, "Deployment", "", "img:v1"),
      Override(ImagePath, "Deployment", "", ""),
      Override(<<>>, "Pod", "", "") }

Manifest(path, ovs) == [Path |-> path, Overrides |-> ovs]

ManifestLists ==
    { <<>>,
      <<Manifest("k8s/deploy.yaml", <<>>)>>,
      <<Manifest("", <<>>)>>,
      <<Manifest("", <<Override(<<>>, "Pod", "", "")>>)>>,
      <<Manifest("k8s/deploy.yaml", <<>>), Manifest("", <<>>)>>,
      <<Manifest("k8s/deploy.yaml", <<Override(ImagePath, "Deployment", "", "img:v1")>>),
        Manifest("k8s/svc.yaml", <<Override(ReplicasPath, "DEPLOYMENT", "web", "2"),
                                   Override(ImagePath, "", "", "img:v1")>>)>>,
      <<Manifest("k8s/deploy.yaml", <<Override(ImagePath, "Deployment", "", "img:v1"),
                                      Override(ImagePath, "Deployment", "", "")>>)>> }
    \cup { <<Manifest("k8s/deploy.yaml", <<o>>)>> : o \in GoodOverrides \cup BadOverrides }

DeployPool ==
    [Name : {"", "d1", "d2"}, BuildID : {"", "api", "ghost"}, Manifests : ManifestLists]

EmptyCfg == [Version |-> "", Build |-> <<>>, Deploy |-> <<>>]

(***************************************************************************)
(* Validate: idle values, used while the override engine runs.             *)
(***************************************************************************)
ValidateIdle ==
    /\ cfg = EmptyCfg
    /\ vpc = "idle"
    /\ verr = NoVErr
    /\ buildNames = {}
    /\ deployNames = {}

(***************************************************************************)
(* ApplyOverrides(docs, overrides), one action per pass of the inner loop. *)
(***************************************************************************)
Init ==
    /\ docs \in SeqsUpTo(DocPool, MaxDocs)
    /\ overrides \in SeqsUpTo(OverridePool, MaxOverrides)
    /\ docs0 = docs
    /\ di = 1
    /\ oi = 1
    /\ pc = "loop"
    /\ err = NoErr
    /\ calls = <<>>
    /\ ValidateIdle
    /\ TemplateIdle
    /\ RenderIdle
    /\ PipelineIdle
    /\ HelpersIdle
    /\ RunsIdle
    /\ ParseIdle

inLoop == pc = "loop" /\ di <= Len(docs) /\ oi <= Len(overrides)

\* lines 63-65: the document does not match, continue
OverrideSkip ==
    /\ inLoop
    /\ ~matchesResource(docs[di], overrides[oi].Match)
    /\ oi' = oi + 1
    /\ UNCHANGED <<docs, overrides, docs0, di, pc, err, calls, besidesOverrides>>

\* lines 68-70: setValueAtPath returns nil
OverrideApply ==
    /\ inLoop
    /\ matchesResource(docs[di], overrides[oi].Match)
    /\ LET r == setValueAtPath(docs[di], overrides[oi].Path, Str(overrides[oi].Value))
       IN  /\ r.err = NoErr
           /\ docs' = [docs EXCEPT ![di] = r.cur]
    /\ calls' = Append(calls, <<di, oi>>)
    /\ oi' = oi + 1
    /\ UNCHANGED <<overrides, docs0, di, pc, err, besidesOverrides>>

\* variant: the documents are restored when an override fails
OverrideFail_rollback ==
    /\ inLoop
    /\ matchesResource(docs[di], overrides[oi].Match)
    /\ LET r == setValueAtPath(docs[di], overrides[oi].Path, Str(overrides[oi].Value))
       IN  /\ r.err # NoErr
           /\ docs' = docs0
           /\ err' = r.err
    /\ calls' = Append(calls, <<di, oi>>)
    /\ pc' = "returned"
    /\ UNCHANGED <<overrides, docs0, di, oi, besidesOverrides>>

\* lines 68-70: setValueAtPath returns an error, ApplyOverrides returns it
OverrideFail ==
    /\ inLoop
    /\ matchesResource(docs[di], overrides[oi].Match)
    /\ LET r == setValueAtPath(docs[di], overrides[oi].Path, Str(overrides[oi].Value))
       IN  /\ r.err # NoErr
           /\ docs' = [docs EXCEPT ![di] = r.cur]
           /\ err' = r.err
    /\ calls' = Append(calls, <<di, oi>>)
    /\ pc' = "returned"
    /\ UNCHANGED <<overrides, docs0, di, oi, besidesOverrides>>

\* the inner loop is over, the outer loop takes the next document
NextDoc ==
    /\ pc = "loop"
    /\ di <= Len(docs)
    /\ oi > Len(overrides)
    /\ di' = di + 1
    /\ oi' = 1
    /\ UNCHANGED <<docs, overrides, docs0, pc, err, calls, besidesOverrides>>

\* line 74: return nil
ApplyReturn ==
    /\ pc = "loop"
    /\ di > Len(docs)
    /\ pc' = "returned"
    /\ UNCHANGED <<docs, overrides, docs0, di, oi, err, calls, besidesOverrides>>

Next == OverrideSkip \/ OverrideApply \/ OverrideFail \/ NextDoc \/ ApplyReturn

Spec == Init /\ [][Next]_vars

(***************************************************************************)
(* Validate(config).  The config is read once, front to back: version,    *)
(* then config.Build in list order, then config.Deploy in list order.  The *)
(* model reveals each element when the loop reaches it, so cfg is the part *)
(* of the config that Validate has read.  (config is never nil here: it    *)
(* comes from Parse.)                                                      *)
(***************************************************************************)
OverridesIdle ==
    /\ docs = <<>>
    /\ overrides = <<>>
    /\ docs0 = <<>>
    /\ di = 1
    /\ oi = 1
    /\ pc = "idle"
    /\ err = NoErr
    /\ calls = <<>>

InitValidate ==
    /\ cfg = EmptyCfg
    /\ vpc = "version"
    /\ verr = NoVErr
    /\ buildNames = {}
    /\ deployNames = {}
    /\ OverridesIdle
    /\ TemplateIdle
    /\ RenderIdle
    /\ PipelineIdle
    /\ HelpersIdle
    /\ RunsIdle
    /\ ParseIdle

\* lines 15-17
ValidateVersion ==
    /\ vpc = "version"
    /\ \E v \in Versions :
          /\ cfg' = [cfg EXCEPT !.Version = v]
          /\ IF v # "1"
             THEN verr' = VErr(<<>>, "unsupported version") /\ vpc' = "returned"
             ELSE verr' = verr /\ vpc' = "builds"
    /\ UNCHANGED <<buildNames, deployNames, besidesValidate>>

\* lines 21-26, one pass of the loop
ValidateBuildStep ==
    /\ vpc = "builds"
    /\ Len(cfg.Build) < MaxBuilds
    /\ \E build \in BuildPool :
          LET e == validateBuild(build, Len(cfg.Build), buildNames)
          IN  /\ cfg' = [cfg EXCEPT !.Build = Append(@, build)]
              /\ IF e # NoVErr
                 THEN verr' = e /\ vpc' = "returned" /\ buildNames' = buildNames
                 ELSE verr' = verr /\ vpc' = vpc /\ buildNames' = buildNames \cup {build.Name}
    /\ UNCHANGED <<deployNames, besidesValidate>>

\* the loop over config.Build is over
BuildsDone ==
    /\ vpc = "builds"
    /\ vpc' = "deploys"
    /\ UNCHANGED <<cfg, verr, buildNames, deployNames, besidesValidate>>

\* lines 30-35, one pass of the loop
ValidateDeployStep ==
    /\ vpc = "deploys"
    /\ Len(cfg.Deploy) < MaxDeploys
    /\ \E deploy \in DeployPool :
          LET e == validateDeploy(deploy, Len(cfg.Deploy), deployNames, buildNames)
          IN  /\ cfg' = [cfg EXCEPT !.Deploy = Append(@, deploy)]
              /\ IF e # NoVErr
                 THEN verr' = e /\ vpc' = "returned" /\ deployNames' = deployNames
                 ELSE verr' = verr /\ vpc' = vpc /\ deployNames' = deployNames \cup {deploy.Name}
    /\ UNCHANGED <<buildNames, besidesValidate>>

\* line 37: return nil
ValidateReturn ==
    /\ vpc = "deploys"
    /\ vpc' = "returned"
    /\ UNCHANGED <<cfg, verr, buildNames, deployNames, besidesValidate>>

NextValidate ==
    ValidateVersion \/ ValidateBuildStep \/ BuildsDone \/ ValidateDeployStep \/ ValidateReturn

SpecValidate == InitValidate /\ [][NextValidate]_vars

(***************************************************************************)
(* Vocabulary of the properties.                                           *)
(*                                                                         *)
(* Field reads a key of a document value without assuming its shape.       *)
(* SpecSegments is the path syntax as the specification defines it: dot    *)
(* separated segments, a bracketed index being a segment of its own that   *)
(* indexes the sequence produced by the previous segment.                  *)
(***************************************************************************)
Absent == [t |-> "absent", v |-> 0]

Field(x, k) == IF IsMap(x) /\ k \in DOMAIN x.v THEN x.v[k] ELSE Absent

Range(q) == {q[k] : k \in 1..Len(q)}

Flush(acc) == IF acc = <<>> THEN <<>> ELSE <<acc>>

RECURSIVE closing(_, _)
closing(path, i) ==
    IF i > Len(path) THEN Len(path)
    ELSE IF path[i] = "]" THEN i ELSE closing(path, i + 1)

RECURSIVE specSegmentsFrom(_, _, _)
specSegmentsFrom(path, i, acc) ==
    IF i > Len(path) THEN Flush(acc)
    ELSE IF path[i] = "." THEN Flush(acc) \o specSegmentsFrom(path, i + 1, <<>>)
    ELSE IF path[i] = "["
         THEN LET j == closing(path, i)
              IN  Flush(acc) \o <<SubSeq(path, i, j)>> \o specSegmentsFrom(path, j + 1, <<>>)
    ELSE specSegmentsFrom(path, i + 1, Append(acc, path[i]))

SpecSegments(path) == specSegmentsFrom(path, 1, <<>>)

IsIndex(seg) == seg[1] = "["
IndexOf(seg) == Atoi(SubSeq(seg, 2, Len(seg) - 1)).n

\* the value found by following segs from x, Absent when there is none
RECURSIVE ValueAt(_, _)
ValueAt(x, segs) ==
    IF segs = <<>> THEN x
    ELSE LET s == Head(segs)
         IN  IF IsIndex(s)
             THEN IF IsSeq(x) /\ IndexOf(s) >= 0 /\ IndexOf(s) < Len(x.v)
                  THEN ValueAt(x.v[IndexOf(s) + 1], Tail(segs))
                  ELSE Absent
             ELSE IF IsMap(x) /\ Join(s) \in DOMAIN x.v
                  THEN ValueAt(x.v[Join(s)], Tail(segs))
                  ELSE Absent

\* new equals old everywhere except on the positions that segs runs through
RECURSIVE SameOffPath(_, _, _)
SameOffPath(old, new, segs) ==
    IF segs = <<>> THEN TRUE
    ELSE LET s == Head(segs)
         IN  IF IsIndex(s)
             THEN /\ IsSeq(old) /\ IsSeq(new) /\ Len(old.v) = Len(new.v)
                  /\ \A k \in 1..Len(old.v) :
                        IF k = IndexOf(s) + 1
                        THEN SameOffPath(old.v[k], new.v[k], Tail(segs))
                        ELSE old.v[k] = new.v[k]
             ELSE /\ IsMap(old) /\ IsMap(new)
                  /\ (DOMAIN new.v) \ {Join(s)} = (DOMAIN old.v) \ {Join(s)}
                  /\ \A k \in (DOMAIN old.v) \ {Join(s)} : old.v[k] = new.v[k]
                  /\ Join(s) \in DOMAIN new.v
                  /\ (Join(s) \in DOMAIN old.v
                        => SameOffPath(old.v[Join(s)], new.v[Join(s)], Tail(segs)))

\* new keeps everything old holds; it may hold additional map keys
RECURSIVE Extends(_, _)
Extends(new, old) ==
    \/ new = old
    \/ /\ IsMap(old) /\ IsMap(new)
       /\ DOMAIN old.v \subseteq DOMAIN new.v
       /\ \A k \in DOMAIN old.v : Extends(new.v[k], old.v[k])
    \/ /\ IsSeq(old) /\ IsSeq(new) /\ Len(old.v) = Len(new.v)
       /\ \A k \in 1..Len(old.v) : Extends(new.v[k], old.v[k])

\* no sequence that old and new both hold at the same place is longer in new
RECURSIVE NoSeqGrown(_, _)
NoSeqGrown(old, new) ==
    IF IsSeq(old) /\ IsSeq(new)
    THEN /\ Len(new.v) = Len(old.v)
         /\ \A k \in 1..Len(old.v) : NoSeqGrown(old.v[k], new.v[k])
    ELSE IF IsMap(old) /\ IsMap(new)
    THEN \A k \in (DOMAIN old.v) \cap (DOMAIN new.v) : NoSeqGrown(old.v[k], new.v[k])
    ELSE TRUE

\* following segs from x, the first bracket segment whose index is outside
\* the sequence it is applied to
RECURSIVE OutOfRange(_, _)
OutOfRange(x, segs) ==
    IF segs = <<>> THEN [hit |-> FALSE, index |-> 0, length |-> 0]
    ELSE LET s == Head(segs)
         IN  IF IsIndex(s)
             THEN IF ~IsSeq(x) THEN [hit |-> FALSE, index |-> 0, length |-> 0]
                  ELSE IF IndexOf(s) < 0 \/ IndexOf(s) >= Len(x.v)
                       THEN [hit |-> TRUE, index |-> IndexOf(s), length |-> Len(x.v)]
                       ELSE OutOfRange(x.v[IndexOf(s) + 1], Tail(segs))
             ELSE IF ~IsMap(x) THEN [hit |-> FALSE, index |-> 0, length |-> 0]
                  ELSE IF Join(s) \in DOMAIN x.v
                       THEN OutOfRange(x.v[Join(s)], Tail(segs))
                       ELSE OutOfRange(EmptyMap, Tail(segs))

PodSpec(doc) == Field(Field(Field(doc, "spec"), "template"), "spec")

\* the match predicate as the specification words it
SpecMatch(doc, match) ==
    /\ Field(doc, "kind") = Str(match.Kind)
    /\ match.Name = "" \/ Field(Field(doc, "metadata"), "name") = Str(match.Name)

(***************************************************************************)
(* C1.  For a Deployment whose spec.template.spec.containers is a          *)
(* non-empty sequence, ApplyOverrides with the single override             *)
(* {path: "spec.template.spec.containers[0].image", match.kind:            *)
(* "Deployment", value: v} sets the image field of element 0 of the        *)
(* existing containers sequence to v and adds no other key under           *)
(* spec.template.spec.                                                     *)
(***************************************************************************)
C1_ImageOfFirstContainer ==
    \A i \in 1..Len(docs) :
        ( /\ pc = "returned"
          /\ Len(overrides) = 1
          /\ overrides[1].Path = ImagePath
          /\ overrides[1].Match = [Kind |-> "Deployment", Name |-> ""]
          /\ Field(docs0[i], "kind") = Str("Deployment")
          /\ IsSeq(Field(PodSpec(docs0[i]), "containers"))
          /\ Len(Field(PodSpec(docs0[i]), "containers").v) >= 1 )
        => /\ err = NoErr
           /\ LET c == Field(PodSpec(docs[i]), "containers")
              IN  /\ IsSeq(c)
                  /\ Len(c.v) = Len(Field(PodSpec(docs0[i]), "containers").v)
                  /\ Field(c.v[1], "image") = Str(overrides[1].Value)
           /\ DOMAIN PodSpec(docs[i]).v = DOMAIN PodSpec(docs0[i]).v

(***************************************************************************)
(* C2.  ApplyOverrides leaves unchanged every document whose kind field    *)
(* differs from the Match.Kind of each override.                           *)
(***************************************************************************)
C2_OtherKindsUntouched ==
    \A i \in 1..Len(docs) :
        (\A k \in 1..Len(overrides) : Field(docs0[i], "kind") # Str(overrides[k].Match.Kind))
        => docs[i] = docs0[i]

\* a call that changed one document and left alone another one, of a kind no
\* override names
C2_Witness ==
    /\ pc = "returned"
    /\ \E i, j \in 1..Len(docs) :
          /\ docs[j] # docs0[j]
          /\ Field(docs0[i], "kind") = Str("Service")
          /\ \A k \in 1..Len(overrides) : overrides[k].Match.Kind = "Deployment"

(***************************************************************************)
(* C3.  An override is handed to setValueAtPath for a document exactly     *)
(* when the document's kind equals Match.Kind (case-sensitive) and         *)
(* Match.Name is empty or equals metadata.name; a document without         *)
(* metadata.name is matched only by overrides whose Match.Name is empty.   *)
(***************************************************************************)
C3_MatchPredicate ==
    [][ inLoop =>
          /\ (calls' # calls) <=> SpecMatch(docs[di], overrides[oi].Match)
          /\ (calls' # calls /\ Field(Field(docs[di], "metadata"), "name") = Absent)
                => overrides[oi].Match.Name = "" ]_vars

\* a Deployment passed over by an override for kind "deployment" while
\* another override was applied to it
C3_Witness ==
    /\ pc = "returned"
    /\ \E i \in 1..Len(docs), k, l \in 1..Len(overrides) :
          /\ Field(docs0[i], "kind") = Str("Deployment")
          /\ overrides[k].Match.Kind = "deployment"
          /\ <<i, k>> \notin Range(calls)
          /\ <<i, l>> \in Range(calls)

C5_ValueAtPath ==
    [][ (inLoop /\ calls' # calls /\ pc' = "loop") =>
          LET o == overrides[oi]
          IN  /\ ValueAt(docs'[di], SpecSegments(o.Path)) = Str(o.Value)
              /\ SameOffPath(docs[di], docs'[di], SpecSegments(o.Path))
              /\ \A j \in 1..Len(docs) : j # di => docs'[j] = docs[j] ]_vars

(***************************************************************************)
(* C6.  ApplyOverrides never grows a sequence, and a bracket segment whose *)
(* index is negative or >= the length of the sequence it indexes makes the *)
(* override fail with an error naming the index and the current length.    *)
(***************************************************************************)
C6_SequencesNeverGrow ==
    [][ inLoop =>
          /\ \A j \in 1..Len(docs) : NoSeqGrown(docs[j], docs'[j])
          /\ LET o == overrides[oi]
                 hit == OutOfRange(docs[di], SpecSegments(o.Path))
             IN  (calls' # calls /\ hit.hit) => err' = IndexErr(hit.index, hit.length) ]_vars

(***************************************************************************)
(* C7.  When ApplyOverrides fails on a (document, override) pair it        *)
(* returns at once: nothing is applied or visited afterwards, and every    *)
(* mutation made before the failure stays in place.                        *)
(***************************************************************************)
C7_FailFastNoRollback ==
    [][ /\ pc = "loop"
        /\ (err' # NoErr) =>
              /\ pc' = "returned"
              /\ calls' = Append(calls, <<di, oi>>)
              /\ \A j \in 1..Len(docs) : j # di => docs'[j] = docs[j]
              /\ Extends(docs'[di], docs[di]) ]_vars

\* the call failed on the second document after it had changed the first,
\* and the first is still changed
C7_Witness ==
    /\ pc = "returned"
    /\ err # NoErr
    /\ di = 2
    /\ Len(calls) >= 2
    /\ docs[1] # docs0[1]
    /\ docs[2] # docs0[2]

(***************************************************************************)
(* Vocabulary of the validation properties.                                *)
(***************************************************************************)
BuildNamesOf(c) == {c.Build[i].Name : i \in 1..Len(c.Build)}

ManifestsOf(c) ==
    UNION {Range(c.Deploy[i].Manifests) : i \in 1..Len(c.Deploy)}

OverridesOf(c) == UNION {Range(m.Overrides) : m \in ManifestsOf(c)}

\* what an error is about: the innermost of "build", "deploy", "manifest",
\* "override" in its prefix chain, "config" when there is none
Scope(e) == IF e.at = <<>> THEN "config" ELSE e.at[Len(e.at) - 1]

TenKinds ==
    {"Deployment", "Service", "ConfigMap", "Secret", "Ingress",
     "StatefulSet", "DaemonSet", "Job", "CronJob", "PersistentVolumeClaim"}

KindNames == TenKinds \cup {"Pod", "ReplicaSet", "Namespace", "ServiceAccount"}

Recognized(kind) == \E k \in TenKinds : ToLower(kind) = ToLower(k)

\* the override an error with an "override" prefix is about
Offender(c, e) ==
    c.Deploy[e.at[2] + 1].Manifests[e.at[4] + 1].Overrides[e.at[6] + 1]

(***************************************************************************)
(* C8.  Every config that Validate accepts has version "1", non-empty and  *)
(* pairwise distinct build names, non-empty and pairwise distinct deploy   *)
(* names, a non-empty dockerfile and at least one tag in every build, a    *)
(* buildId naming a build and at least one manifest in every deploy, a     *)
(* non-empty path in every manifest and a non-empty path and value in      *)
(* every override.                                                         *)
(***************************************************************************)
C8_AcceptedConfigIsWellFormed ==
    (vpc = "returned" /\ verr = NoVErr) =>
        /\ cfg.Version = "1"
        /\ \A i \in 1..Len(cfg.Build) :
              /\ cfg.Build[i].Name # ""
              /\ cfg.Build[i].Dockerfile # ""
              /\ Len(cfg.Build[i].Tags) >= 1
              /\ \A j \in 1..Len(cfg.Build) : i # j => cfg.Build[i].Name # cfg.Build[j].Name
        /\ \A i \in 1..Len(cfg.Deploy) :
              /\ cfg.Deploy[i].Name # ""
              /\ \A j \in 1..Len(cfg.Deploy) : i # j => cfg.Deploy[i].Name # cfg.Deploy[j].Name
              /\ cfg.Deploy[i].BuildID \in BuildNamesOf(cfg)
              /\ Len(cfg.Deploy[i].Manifests) >= 1
        /\ \A m \in ManifestsOf(cfg) : m.Path # ""
        /\ \A o \in OverridesOf(cfg) : o.Path # <<>> /\ o.Value # ""

\* an accepted config with two builds and two deploys that carry overrides
C8_Witness ==
    /\ vpc = "returned" /\ verr = NoVErr
    /\ Len(cfg.Build) = 2 /\ Len(cfg.Deploy) = 2
    /\ \A i \in 1..2 : \E m \in Range(cfg.Deploy[i].Manifests) : m.Overrides # <<>>

(***************************************************************************)
(* C9 as written.  The kind names Validate recognizes (ignoring case) are  *)
(* a set of fourteen.                                                      *)
(***************************************************************************)
C9_FourteenKinds ==
    (vpc = "returned" /\ OverridesOf(cfg) # {}) =>
        Cardinality({k \in KindNames :
                        validateOverride(Override(ImagePath, k, "", "v"), 0) = NoVErr}) = 14

(***************************************************************************)
(* C9 amended.  Validate accepts a non-empty Override.Match.Kind exactly   *)
(* when it equals, ignoring case, one of the ten names Deployment,         *)
(* Service, ConfigMap, Secret, Ingress, StatefulSet, DaemonSet, Job,       *)
(* CronJob, PersistentVolumeClaim, and rejects the config otherwise.       *)
(***************************************************************************)
C9_TenKinds ==
    vpc = "returned" =>
        /\ verr = NoVErr =>
              \A o \in OverridesOf(cfg) : o.Match.Kind = "" \/ Recognized(o.Match.Kind)
        /\ verr.msg = "is not a recognized Kubernetes resource type" =>
              /\ Offender(cfg, verr).Match.Kind # ""
              /\ ~Recognized(Offender(cfg, verr).Match.Kind)

\* an accepted config whose overrides name kinds in lower and upper case
C9_Witness ==
    /\ vpc = "returned" /\ verr = NoVErr
    /\ \E o \in OverridesOf(cfg) : o.Match.Kind = "deployment"
    /\ \E o \in OverridesOf(cfg) : o.Match.Kind = "DEPLOYMENT"

(***************************************************************************)
(* C10.  Validate rejects each of these violations with an error           *)
(* identifying it: version other than "1", a build with empty name, two    *)
(* builds with the same name, a build with empty dockerfile, a build with  *)
(* no tags, a deploy whose buildId names no build, a manifest or override  *)
(* with empty path, an override with empty value.                          *)
(***************************************************************************)
\* the violations of the list that c contains, as <<scope, message>>
Listed(c) ==
    {<<"config", "unsupported version">> : x \in {1} \cap {IF c.Version # "1" THEN 1 ELSE 0}}
    \cup {<<"build", "name is required">> :
            i \in {i \in 1..Len(c.Build) : c.Build[i].Name = ""}}
    \cup {<<"build", "duplicate build name">> :
            i \in {i \in 1..Len(c.Build) :
                     \E j \in 1..Len(c.Build) : j # i /\ c.Build[j].Name = c.Build[i].Name}}
    \cup {<<"build", "dockerfile is required">> :
            i \in {i \in 1..Len(c.Build) : c.Build[i].Dockerfile = ""}}
    \cup {<<"build", "at least one tag is required">> :
            i \in {i \in 1..Len(c.Build) : c.Build[i].Tags = <<>>}}
    \cup {<<"deploy", "does not reference an existing build">> :
            i \in {i \in 1..Len(c.Deploy) : c.Deploy[i].BuildID \notin BuildNamesOf(c)}}
    \cup {<<"manifest", "path is required">> : m \in {m \in ManifestsOf(c) : m.Path = ""}}
    \cup {<<"override", "path is required">> : o \in {o \in OverridesOf(c) : o.Path = <<>>}}
    \cup {<<"override", "value is required">> : o \in {o \in OverridesOf(c) : o.Value = ""}}

ListedPairs ==
    { <<"config", "unsupported version">>, <<"build", "name is required">>,
      <<"build", "duplicate build name">>, <<"build", "dockerfile is required">>,
      <<"build", "at least one tag is required">>,
      <<"deploy", "does not reference an existing build">>,
      <<"manifest", "path is required">>, <<"override", "path is required">>,
      <<"override", "value is required">> }

\* c breaks a rule that is not on the list
Unlisted(c) ==
    \/ \E i \in 1..Len(c.Deploy) :
          \/ c.Deploy[i].Name = ""
          \/ c.Deploy[i].BuildID = ""
          \/ c.Deploy[i].Manifests = <<>>
          \/ \E j \in 1..Len(c.Deploy) : j # i /\ c.Deploy[j].Name = c.Deploy[i].Name
    \/ \E o \in OverridesOf(c) : o.Match.Kind # "" /\ ~Recognized(o.Match.Kind)

C10_ViolationsRejected ==
    vpc = "returned" =>
        /\ Listed(cfg) # {} => verr # NoVErr
        /\ <<Scope(verr), verr.msg>> \in ListedPairs => <<Scope(verr), verr.msg>> \in Listed(cfg)
        /\ \A x \in ListedPairs :
              (Listed(cfg) = {x} /\ ~Unlisted(cfg)) => <<Scope(verr), verr.msg>> = x

\* a config with two valid builds rejected for a deploy whose buildId names
\* neither
C10_Witness ==
    /\ vpc = "returned"
    /\ Len(cfg.Build) = 2 /\ Len(cfg.Deploy) = 1
    /\ cfg.Deploy[1].BuildID = "ghost"
    /\ verr = VErr(<<"deploy", 0>>, "does not reference an existing build")

(***************************************************************************)
(* Part 3.  Template strings.  A string is modelled as the sequence of its *)
(* pieces; concatenating the pieces gives the string.  The pieces are      *)
(* "{{ .BUILD_TAG[" (the prefix transformBuildTagSyntax searches for),     *)
(* "{{", "}}", "]", " ", "-", "+", single digits, the field references     *)
(* ".COMMIT_SHA" ..., the function name "tag", ":", and runs of other      *)
(* characters.  A commit SHA is a sequence of single characters.           *)
(***************************************************************************)
OpenBuildTag == "{{ .BUILD_TAG["

\* strings.Index(s[i-1:], p) for a one-piece p, as a position of s; 0 for -1
RECURSIVE Index(_, _, _)
Index(s, p, i) ==
    IF i > Len(s) THEN 0 ELSE IF s[i] = p THEN i ELSE Index(s, p, i + 1)

\* strings.Contains(tmpl, "{{")
ContainsOpen(s) == \E k \in 1..Len(s) : s[k] \in {"{{", OpenBuildTag}

DigitStr(d) ==
    CASE d = 0 -> "0" [] d = 1 -> "1" [] d = 2 -> "2" [] d = 3 -> "3"
      [] d = 4 -> "4" [] d = 5 -> "5" [] d = 6 -> "6" [] d = 7 -> "7"
      [] d = 8 -> "8" [] d = 9 -> "9"

RECURSIVE natDigits(_)
natDigits(n) ==
    IF n < 10 THEN <<DigitStr(n)>> ELSE natDigits(n \div 10) \o <<DigitStr(n % 10)>>

\* fmt.Sprintf("{{ tag %d }}", index)
tagCall(index) ==
    <<"{{", " ", "tag", " ">>
    \o (IF index < 0 THEN <<"-">> \o natDigits(0 - index) ELSE natDigits(index))
    \o <<" ", "}}">>

\* one pass of the loop body only
transformBuildTagSyntax_once(result) ==
    LET start == Index(result, OpenBuildTag, 1)
        bracketEnd == IF start = 0 THEN 0 ELSE Index(result, "]", start + 1)
        closeStart == IF bracketEnd = 0 THEN 0 ELSE Index(result, "}}", bracketEnd + 1)
    IN  IF closeStart = 0 THEN result
        ELSE LET a == Atoi(SubSeq(result, start + 1, bracketEnd - 1))
                 after == SubSeq(result, closeStart + 1, Len(result))
             IN  IF ~a.ok THEN after
                 ELSE SubSeq(result, 1, start - 1) \o tagCall(a.n) \o after

\* transformBuildTagSyntax(tmpl): the loop, one pass per recursion.  On an
\* index that Atoi rejects the code continues with result[closeEnd:] only.
RECURSIVE transformBuildTagSyntax(_)
transformBuildTagSyntax(result) ==
    LET start == Index(result, OpenBuildTag, 1)
        bracketEnd == IF start = 0 THEN 0 ELSE Index(result, "]", start + 1)
        closeStart == IF bracketEnd = 0 THEN 0 ELSE Index(result, "}}", bracketEnd + 1)
    IN  IF closeStart = 0 THEN result
        ELSE LET a == Atoi(SubSeq(result, start + 1, bracketEnd - 1))
                 after == SubSeq(result, closeStart + 1, Len(result))
             IN  IF ~a.ok THEN transformBuildTagSyntax(after)
                 ELSE transformBuildTagSyntax(
                          SubSeq(result, 1, start - 1) \o tagCall(a.n) \o after)

(***************************************************************************)
(* TemplateContext and RenderString.                                       *)
(***************************************************************************)
\* the short SHA cut at 7 characters
NewTemplateContext_short7(commitSHA, branch, repo) ==
    [COMMIT_SHA   |-> commitSHA,
     COMMIT_SHORT |-> IF Len(commitSHA) > 7 THEN SubSeq(commitSHA, 1, 7)
                      ELSE commitSHA,
     BRANCH       |-> branch,
     REPO         |-> repo,
     TIMESTAMP    |-> <<"1700000000">>,
     BUILD_TAGS   |-> <<>>]

NewTemplateContext(commitSHA, branch, repo) ==
    [COMMIT_SHA   |-> commitSHA,
     COMMIT_SHORT |-> IF Len(commitSHA) > 12 THEN SubSeq(commitSHA, 1, 12)
                      ELSE commitSHA,
     BRANCH       |-> branch,
     REPO         |-> repo,
     TIMESTAMP    |-> <<"1700000000">>,
     BUILD_TAGS   |-> <<>>]

\* errors of RenderString
NoTErr == [kind |-> "none", index |-> 0, count |-> 0]
ParseErr == [kind |-> "failed to parse template", index |-> 0, count |-> 0]
FieldErr == [kind |-> "failed to execute template", index |-> 0, count |-> 0]
\* "failed to execute template", wrapping the error of the tag function:
\* "BUILD_TAG index %d out of range (available: %d tags)"
TagErr(i, n) == [kind |-> "BUILD_TAG index out of range", index |-> i, count |-> n]

\* the index reduced modulo the number of tags
tag_modulo(ctx, index) ==
    IF Len(ctx.BUILD_TAGS) = 0
    THEN [err |-> TagErr(index, 0), out |-> <<>>]
    ELSE [err |-> NoTErr, out |-> ctx.BUILD_TAGS[(index % Len(ctx.BUILD_TAGS)) + 1]]

\* the "tag" function RenderString registers
tag(ctx, index) ==
    IF index < 0 \/ index >= Len(ctx.BUILD_TAGS)
    THEN [err |-> TagErr(index, Len(ctx.BUILD_TAGS)), out |-> <<>>]
    ELSE [err |-> NoTErr, out |-> ctx.BUILD_TAGS[index + 1]]

\* the exported string fields of TemplateContext, as a template names them
Fields == {".COMMIT_SHA", ".COMMIT_SHORT", ".BRANCH", ".REPO", ".TIMESTAMP"}

FieldValue(ctx, f) ==
    CASE f = ".COMMIT_SHA" -> ctx.COMMIT_SHA
      [] f = ".COMMIT_SHORT" -> ctx.COMMIT_SHORT
      [] f = ".BRANCH" -> ctx.BRANCH
      [] f = ".REPO" -> ctx.REPO
      [] f = ".TIMESTAMP" -> ctx.TIMESTAMP

\* a field reference that TemplateContext does not have
IsFieldRef(piece) == piece \in Fields \cup {".NOPE"}

\* the words of an action body: the maximal runs of pieces other than " "
RECURSIVE words(_, _)
words(body, cur) ==
    IF body = <<>> THEN (IF cur = <<>> THEN <<>> ELSE <<cur>>)
    ELSE IF Head(body) = " "
         THEN (IF cur = <<>> THEN <<>> ELSE <<cur>>) \o words(Tail(body), <<>>)
    ELSE words(Tail(body), Append(cur, Head(body)))

\* text/template on the actions RenderString meets: {{ .Field }} and
\* {{ tag n }}.  Anything else between the delimiters is a parse error.
IsFieldAction(w) == Len(w) = 1 /\ Len(w[1]) = 1 /\ IsFieldRef(w[1][1])
IsTagAction(w) == Len(w) = 2 /\ w[1] = <<"tag">> /\ Atoi(w[2]).ok

\* template.New("nimbul").Funcs(funcMap).Parse(tmpl) succeeds
RECURSIVE parses(_, _)
parses(s, i) ==
    IF i > Len(s) THEN TRUE
    ELSE IF s[i] = OpenBuildTag THEN FALSE      \* "[" is no character of an action
    ELSE IF s[i] = "{{"
         THEN LET close == Index(s, "}}", i + 1)
              IN  IF close = 0 THEN FALSE       \* unclosed action
                  ELSE LET w == words(SubSeq(s, i + 1, close - 1), <<>>)
                       IN  (IsFieldAction(w) \/ IsTagAction(w)) /\ parses(s, close + 1)
    ELSE parses(s, i + 1)

\* t.Execute(&buf, ctx) on a template that parsed; buf is out
RECURSIVE execute(_, _, _, _)
execute(s, i, ctx, out) ==
    IF i > Len(s) THEN [out |-> out, err |-> NoTErr]
    ELSE IF s[i] = "{{"
         THEN LET close == Index(s, "}}", i + 1)
                  w == words(SubSeq(s, i + 1, close - 1), <<>>)
              IN  IF IsFieldAction(w)
                  THEN IF w[1][1] \in Fields
                       THEN execute(s, close + 1, ctx, out \o FieldValue(ctx, w[1][1]))
                       ELSE [out |-> <<>>, err |-> FieldErr]
                  ELSE LET r == tag(ctx, Atoi(w[2]).n)
                       IN  IF r.err # NoTErr THEN [out |-> <<>>, err |-> r.err]
                           ELSE execute(s, close + 1, ctx, out \o r.out)
    ELSE execute(s, i + 1, ctx, Append(out, s[i]))

\* the fast path returning the empty string
RenderString_emptyFast(t, ctx) ==
    IF ~ContainsOpen(t) THEN [out |-> <<>>, err |-> NoTErr]
    ELSE LET s == transformBuildTagSyntax(t)
         IN  IF ~parses(s, 1) THEN [out |-> <<>>, err |-> ParseErr]
             ELSE execute(s, 1, ctx, <<>>)

RenderString(t, ctx) ==
    IF ~ContainsOpen(t) THEN [out |-> t, err |-> NoTErr]
    ELSE LET s == transformBuildTagSyntax(t)
         IN  IF ~parses(s, 1) THEN [out |-> <<>>, err |-> ParseErr]
             ELSE execute(s, 1, ctx, <<>>)

(***************************************************************************)
(* Inputs of the renderer.  A template is up to MaxParts parts, each a     *)
(* piece of text or an action, well formed or not.                         *)
(***************************************************************************)
MaxParts == 2

BuildTagRef(index) == <<OpenBuildTag>> \o index \o <<"]", " ", "}}">>
FieldRef(f) == <<"{{", " ", f, " ", "}}">>

PartPool ==
    { <<"img:">>,                              \* text
      <<"]", "}}">>,                           \* text with closing pieces
      FieldRef(".COMMIT_SHORT"),
      FieldRef(".BRANCH"),
      FieldRef(".NOPE"),                       \* no such field
      BuildTagRef(<<"0">>),
      BuildTagRef(<<"1">>),
      BuildTagRef(<<"1", "0">>),               \* index 10
      BuildTagRef(<<"-", "1">>),
      BuildTagRef(<<"x">>),                    \* no integer
      <<OpenBuildTag, "0", "]">> }             \* never closed

RECURSIVE Concat(_)
Concat(parts) == IF parts = <<>> THEN <<>> ELSE Head(parts) \o Concat(Tail(parts))

TemplatePool == {Concat(parts) : parts \in SeqsUpTo(PartPool, MaxParts)}

Sha40 ==
    <<"a", "b", "c", "1", "2", "3", "d", "e", "f", "4",
      "5", "6", "7", "8", "9", "0", "a", "1", "b", "2",
      "c", "3", "d", "4", "e", "5", "f", "6", "0", "7",
      "1", "8", "2", "9", "3", "a", "4", "b", "5", "c">>

ShaPool == {SubSeq(Sha40, 1, n) : n \in {7, 12, 13, 40}}

TagA == <<"registry/app", ":", "v1">>
TagB == <<"registry/app", ":", "latest">>
TagListPool == {<<>>, <<TagA>>, <<TagA, TagB>>}

(***************************************************************************)
(* The renderer's two functions applied to a template and a context.       *)
(***************************************************************************)
InitTemplate ==
    /\ tmpl \in TemplatePool
    /\ \E sha \in {SubSeq(Sha40, 1, 12), Sha40}, tags \in TagListPool :
           tctx = [NewTemplateContext(sha, <<"main">>, <<"acme/app">>)
                       EXCEPT !.BUILD_TAGS = tags]
    /\ tx = <<>>
    /\ tres = [out |-> <<>>, err |-> NoTErr]
    /\ tdone = {}
    /\ OverridesIdle
    /\ ValidateIdle
    /\ RenderIdle
    /\ PipelineIdle
    /\ HelpersIdle
    /\ RunsIdle
    /\ ParseIdle

CallTransform ==
    /\ "idle" \notin tdone /\ "transform" \notin tdone
    /\ tx' = transformBuildTagSyntax(tmpl)
    /\ tdone' = tdone \cup {"transform"}
    /\ UNCHANGED <<tmpl, tctx, tres, besidesTemplate>>

CallRenderString ==
    /\ "idle" \notin tdone /\ "render" \notin tdone
    /\ tres' = RenderString(tmpl, tctx)
    /\ tdone' = tdone \cup {"render"}
    /\ UNCHANGED <<tmpl, tctx, tx, besidesTemplate>>

NextTemplate == CallTransform \/ CallRenderString

SpecTemplate == InitTemplate /\ [][NextTemplate]_vars

(***************************************************************************)
(* Claims about the renderer.  The vocabulary below reads a template the   *)
(* way the specification describes it, independently of the code.          *)
(***************************************************************************)
HasNoOpeningBraces(t) == \A k \in 1..Len(t) : t[k] # "{{" /\ t[k] # OpenBuildTag

\* length of an index literal at position i: an optional sign (when signed
\* is TRUE) and at least one digit; 0 when there is none
literalLen(s, i, signed) ==
    IF signed /\ i <= Len(s) /\ s[i] = "-"
    THEN (IF digitRun(s, i + 1) = 0 THEN 0 ELSE 1 + digitRun(s, i + 1))
    ELSE digitRun(s, i)

\* position of the "}}" ending the reference {{ .BUILD_TAG[n] }} that starts
\* at position i, 0 when no such reference starts there
refEnd(s, i, signed) ==
    LET n == literalLen(s, i + 1, signed)
    IN  IF s[i] = OpenBuildTag /\ n >= 1 /\ i + n + 3 <= Len(s)
           /\ s[i + n + 1] = "]" /\ s[i + n + 2] = " " /\ s[i + n + 3] = "}}"
        THEN i + n + 3 ELSE 0

refIndex(s, i, signed) == SubSeq(s, i + 1, i + literalLen(s, i + 1, signed))

\* the rewrite as specified: every {{ .BUILD_TAG[n] }} with a non-negative
\* integer literal n becomes {{ tag n }}, every other piece stays
RECURSIVE SpecRewrite(_, _)
SpecRewrite(s, i) ==
    IF i > Len(s) THEN <<>>
    ELSE IF refEnd(s, i, FALSE) # 0
         THEN <<"{{", " ", "tag", " ">> \o refIndex(s, i, FALSE) \o <<" ", "}}">>
              \o SpecRewrite(s, refEnd(s, i, FALSE) + 1)
    ELSE <<s[i]>> \o SpecRewrite(s, i + 1)

\* position of the "}}" ending the field action {{ .Field }} at position i
fieldEnd(s, i) ==
    IF s[i] = "{{" /\ i + 4 <= Len(s) /\ s[i + 1] = " " /\ s[i + 2] \in Fields
       /\ s[i + 3] = " " /\ s[i + 4] = "}}"
    THEN i + 4 ELSE 0

\* s from position i on is text, field actions and BUILD_TAG references
RECURSIVE WellFormed(_, _)
WellFormed(s, i) ==
    IF i > Len(s) THEN TRUE
    ELSE IF refEnd(s, i, TRUE) # 0 THEN WellFormed(s, refEnd(s, i, TRUE) + 1)
    ELSE IF fieldEnd(s, i) # 0 THEN WellFormed(s, fieldEnd(s, i) + 1)
    ELSE s[i] \notin {"{{", OpenBuildTag} /\ WellFormed(s, i + 1)

\* the indices n of the references {{ .BUILD_TAG[n] }} of a well-formed s
RefIndices(s) ==
    {Atoi(refIndex(s, i, TRUE)).n : i \in {k \in 1..Len(s) : refEnd(s, k, TRUE) # 0}}

\* a well-formed s with every action replaced by its value
RECURSIVE Substituted(_, _, _)
Substituted(s, i, ctx) ==
    IF i > Len(s) THEN <<>>
    ELSE IF refEnd(s, i, TRUE) # 0
         THEN ctx.BUILD_TAGS[Atoi(refIndex(s, i, TRUE)).n + 1]
              \o Substituted(s, refEnd(s, i, TRUE) + 1, ctx)
    ELSE IF fieldEnd(s, i) # 0
         THEN FieldValue(ctx, s[i + 2]) \o Substituted(s, fieldEnd(s, i) + 1, ctx)
    ELSE <<s[i]>> \o Substituted(s, i + 1, ctx)

\* C11: for every template string with no "{{" in it and every context,
\* RenderString returns the string unchanged and no error.
C11_PlainStringUnchanged ==
    ("render" \in tdone /\ HasNoOpeningBraces(tmpl))
        => tres = [out |-> tmpl, err |-> NoTErr]

C11_Witness ==
    /\ "render" \in tdone
    /\ tmpl = <<"img:", "]", "}}">>
    /\ tres.out = tmpl

\* C13: transformBuildTagSyntax is idempotent: applying it to its own result
\* gives that result again.
C13_TransformIdempotent ==
    "transform" \in tdone => transformBuildTagSyntax(tx) = tx

C13_Witness ==
    /\ "transform" \in tdone
    /\ tmpl = BuildTagRef(<<"0">>) \o BuildTagRef(<<"1">>)
    /\ tx = tagCall(0) \o tagCall(1)

\* C14: the rewrite replaces each {{ .BUILD_TAG[n] }} with a non-negative
\* integer literal n by {{ tag n }} and leaves every other character of the
\* template unchanged and in order; a template without such a reference is
\* returned as it is.
C14_RewriteOnlyReferences ==
    "transform" \in tdone => tx = SpecRewrite(tmpl, 1)

\* C15: rendering a template with references {{ .BUILD_TAG[n] }} puts
\* buildTags[n] at the place of each reference when every n is within
\* 0 .. len(buildTags)-1, and otherwise fails with an error naming an
\* offending index and the number of tags, and returns no output.
C15_BuildTagIndexing ==
    ("render" \in tdone /\ WellFormed(tmpl, 1) /\ RefIndices(tmpl) # {})
        => IF \A n \in RefIndices(tmpl) : 0 <= n /\ n < Len(tctx.BUILD_TAGS)
           THEN tres = [out |-> Substituted(tmpl, 1, tctx), err |-> NoTErr]
           ELSE /\ tres.out = <<>>
                /\ tres.err.kind = "BUILD_TAG index out of range"
                /\ tres.err.index \in RefIndices(tmpl)
                /\ ~(0 <= tres.err.index /\ tres.err.index < Len(tctx.BUILD_TAGS))
                /\ tres.err.count = Len(tctx.BUILD_TAGS)

C15_Witness ==
    /\ "render" \in tdone
    /\ tmpl = <<"img:">> \o BuildTagRef(<<"1">>)
    /\ tctx.BUILD_TAGS = <<TagA, TagB>>
    /\ tres = [out |-> <<"img:">> \o TagB, err |-> NoTErr]

(***************************************************************************)
(* Part 4.  RenderConfig(config, ctx).  Tags and BUILD_TAGS are Go slices: *)
(* the model keeps their backing arrays in heap and the slices as          *)
(* addresses, so that a write through one slice is seen through every      *)
(* slice of the same array.  Override values are strings, held by value.   *)
(***************************************************************************)
NoRErr == [kind |-> "none", at |-> <<>>, buildId |-> "", cause |-> NoTErr]
\* "failed to render build[%d].tags[%d]: %w"
BuildTagRErr(i, j, cause) ==
    [kind |-> "failed to render build tag", at |-> <<i, j>>, buildId |-> "", cause |-> cause]
\* "deploy[%d]: buildId '%s' not found"
NotFoundRErr(i, id) ==
    [kind |-> "not found", at |-> <<i>>, buildId |-> id, cause |-> NoTErr]
\* "failed to render deploy[%d].manifest[%d].override[%d].value: %w"
ValueRErr(i, j, k, cause) ==
    [kind |-> "failed to render override value", at |-> <<i, j, k>>, buildId |-> "",
     cause |-> cause]

\* the context as RenderString reads it: BUILD_TAGS through the heap
Deref(ctx, h) == [ctx EXCEPT !.BUILD_TAGS = h[ctx.BUILD_TAGS]]

\* lines 139-145: the loop over build.Tags, done being the tags rendered so
\* far; it stops at the first error
RECURSIVE renderTags(_, _, _)
renderTags(tags, ctx, done) ==
    IF Len(done) = Len(tags) THEN [err |-> NoTErr, tags |-> done]
    ELSE LET r == RenderString(tags[Len(done) + 1], ctx)
         IN  IF r.err # NoTErr THEN [err |-> r.err, tags |-> done]
             ELSE renderTags(tags, ctx, Append(done, r.out))

\* the rendered build sharing the array of the build it copies
allocTags_alias(h, build) == [heap |-> h, addr |-> build.Tags]

\* line 135: make([]string, len(build.Tags)), a new array of empty strings
allocTags(h, build) ==
    [heap |-> Append(h, [j \in 1..Len(h[build.Tags]) |-> <<>>]), addr |-> Len(h) + 1]

\* always the first build
linkedBuild_first(builds, buildID) == IF Len(builds) > 0 THEN 1 ELSE 0

\* lines 153-159: the position of the first build named buildID, 0 for nil
linkedBuild(builds, buildID) ==
    IF \E b \in 1..Len(builds) : builds[b].Name = buildID
    THEN CHOOSE b \in 1..Len(builds) :
             /\ builds[b].Name = buildID
             /\ \A c \in 1..(b - 1) : builds[c].Name # buildID
    ELSE 0

\* variant: the copy of an override leaves out its Match
renderManifests_noMatch(manifests, ctx) ==
    LET rs == [j \in 1..Len(manifests) |->
                  [k \in 1..Len(manifests[j].Overrides) |->
                      RenderString(manifests[j].Overrides[k].Value, ctx)]]
        bad == UNION {{<<j, k>> : k \in {x \in 1..Len(manifests[j].Overrides) :
                                            rs[j][x].err # NoTErr}} :
                      j \in 1..Len(manifests)}
        before(a, b) == a[1] < b[1] \/ (a[1] = b[1] /\ a[2] < b[2])
    IN  IF bad # {}
        THEN LET f == CHOOSE a \in bad : \A b \in bad : a = b \/ before(a, b)
             IN  [err |-> rs[f[1]][f[2]].err, at |-> <<f[1] - 1, f[2] - 1>>,
                  manifests |-> <<>>]
        ELSE [err |-> NoTErr, at |-> <<>>,
              manifests |->
                  [j \in 1..Len(manifests) |->
                      [Path |-> manifests[j].Path,
                       Overrides |->
                           [k \in 1..Len(manifests[j].Overrides) |->
                               [Path  |-> manifests[j].Overrides[k].Path,
                                Match |-> [Kind |-> "", Name |-> ""],
                                Value |-> rs[j][k].out]]]]]

\* lines 175-199: the loops over deploy.Manifests and manifest.Overrides.
\* RenderString has no effect, so the first error in loop order is the one
\* the loops return.
renderManifests(manifests, ctx) ==
    LET rs == [j \in 1..Len(manifests) |->
                  [k \in 1..Len(manifests[j].Overrides) |->
                      RenderString(manifests[j].Overrides[k].Value, ctx)]]
        bad == UNION {{<<j, k>> : k \in {x \in 1..Len(manifests[j].Overrides) :
                                            rs[j][x].err # NoTErr}} :
                      j \in 1..Len(manifests)}
        before(a, b) == a[1] < b[1] \/ (a[1] = b[1] /\ a[2] < b[2])
    IN  IF bad # {}
        THEN LET f == CHOOSE a \in bad : \A b \in bad : a = b \/ before(a, b)
             IN  [err |-> rs[f[1]][f[2]].err, at |-> <<f[1] - 1, f[2] - 1>>,
                  manifests |-> <<>>]
        ELSE [err |-> NoTErr, at |-> <<>>,
              manifests |->
                  [j \in 1..Len(manifests) |->
                      [Path |-> manifests[j].Path,
                       Overrides |->
                           [k \in 1..Len(manifests[j].Overrides) |->
                               [Path  |-> manifests[j].Overrides[k].Path,
                                Match |-> manifests[j].Overrides[k].Match,
                                Value |-> rs[j][k].out]]]]]

(***************************************************************************)
(* Inputs of RenderConfig: up to MaxBuilds builds with distinct names and  *)
(* up to MaxDeploys deploys, whose buildId may name no build.              *)
(***************************************************************************)
ApiTag == <<"registry/api", ":">> \o FieldRef(".COMMIT_SHORT")
LatestTag == <<"registry/api", ":", "latest">>
WebTag == <<"registry/web", ":">> \o FieldRef(".BRANCH")

TagTemplateLists ==
    { <<ApiTag, LatestTag>>,
      <<WebTag>>,
      <<BuildTagRef(<<"0">>)>> }       \* renders with the caller's BUILD_TAGS only

BuildNameAt(i) == CASE i = 1 -> "api" [] i = 2 -> "web" [] OTHER -> "worker"
DockerfileAt(i) == CASE i = 1 -> "Dockerfile" [] i = 2 -> "web/Dockerfile" [] OTHER -> "w.Dockerfile"
ContextAt(i) == CASE i = 1 -> "." [] i = 2 -> "web" [] OTHER -> "worker"

RenderManifestLists ==
    { <<Manifest("k8s/deploy.yaml",
                 <<Override(ImagePath, "Deployment", "", BuildTagRef(<<"0">>)),
                   Override(ReplicasPath, "Deployment", "web", <<"3">>)>>)>>,
      <<Manifest("k8s/deploy.yaml",
                 <<Override(ImagePath, "Deployment", "", BuildTagRef(<<"1">>))>>),
        Manifest("k8s/svc.yaml", <<>>)>> }

RenderDeployPool ==
    [Name : {"d"}, BuildID : {"api", "web", "ghost"}, Manifests : RenderManifestLists]

\* the commit SHA and the BUILD_TAGS of the context handed in
RenderCtxPool ==
    {[sha |-> sha, tags |-> <<>>] : sha \in ShaPool}
    \cup {[sha |-> Sha40, tags |-> <<TagA>>]}

NoConfig == [nil |-> TRUE, config |-> EmptyCfg, err |-> NoRErr]

InitRender ==
    /\ \E c \in RenderCtxPool, tagLists \in SeqsUpTo(TagTemplateLists, MaxBuilds),
          deploys \in SeqsUpTo(RenderDeployPool, MaxDeploys) :
          /\ heap = <<c.tags>> \o tagLists
          /\ rctx = [NewTemplateContext(c.sha, <<"main">>, <<"acme/app">>)
                        EXCEPT !.BUILD_TAGS = 1]
          /\ rconfig = [Version |-> "1",
                        Build   |-> [i \in 1..Len(tagLists) |->
                                        [Name |-> BuildNameAt(i),
                                         Dockerfile |-> DockerfileAt(i),
                                         Context |-> ContextAt(i), Tags |-> i + 1]],
                        Deploy  |-> deploys]
    /\ rendered = [Version |-> rconfig.Version, Build |-> <<>>, Deploy |-> <<>>]
    /\ deployCtxs = <<>>
    /\ rpc = "builds"
    /\ rres = NoConfig
    /\ OverridesIdle
    /\ ValidateIdle
    /\ TemplateIdle
    /\ PipelineIdle
    /\ HelpersIdle
    /\ RunsIdle
    /\ ParseIdle

\* lines 130-148, one pass of the loop over config.Build
RenderBuildStep ==
    /\ rpc = "builds"
    /\ Len(rendered.Build) < Len(rconfig.Build)
    /\ LET i == Len(rendered.Build) + 1
           build == rconfig.Build[i]
           a == allocTags(heap, build)
           r == renderTags(heap[build.Tags], Deref(rctx, heap), <<>>)
           written == [j \in 1..Len(a.heap[a.addr]) |->
                          IF j <= Len(r.tags) THEN r.tags[j] ELSE a.heap[a.addr][j]]
       IN  /\ heap' = [a.heap EXCEPT ![a.addr] = written]
           /\ IF r.err # NoTErr
              THEN /\ rres' = [NoConfig EXCEPT !.err = BuildTagRErr(i - 1, Len(r.tags), r.err)]
                   /\ rpc' = "returned"
                   /\ rendered' = rendered
              ELSE /\ rendered' = [rendered EXCEPT
                                      !.Build = Append(@, [build EXCEPT !.Tags = a.addr])]
                   /\ UNCHANGED <<rpc, rres>>
    /\ UNCHANGED <<rconfig, rctx, deployCtxs, besidesRender>>

\* the loop over config.Build is over
RenderBuildsDone ==
    /\ rpc = "builds"
    /\ Len(rendered.Build) = Len(rconfig.Build)
    /\ rpc' = "deploys"
    /\ UNCHANGED <<rconfig, rctx, heap, rendered, deployCtxs, rres, besidesRender>>

\* a deploy whose build is missing rendered with the caller's context
RenderDeployStep_skipMissing ==
    /\ rpc = "deploys"
    /\ Len(rendered.Deploy) < Len(rconfig.Deploy)
    /\ LET i == Len(rendered.Deploy) + 1
           deploy == rconfig.Deploy[i]
           lb == linkedBuild(rendered.Build, deploy.BuildID)
           deployCtx == IF lb = 0 THEN rctx
                        ELSE [rctx EXCEPT !.BUILD_TAGS = rendered.Build[lb].Tags]
           m == renderManifests(deploy.Manifests, Deref(deployCtx, heap))
       IN  /\ deployCtxs' = Append(deployCtxs, deployCtx)
           /\ IF m.err # NoTErr
              THEN /\ rres' = [NoConfig EXCEPT
                                  !.err = ValueRErr(i - 1, m.at[1], m.at[2], m.err)]
                   /\ rpc' = "returned"
                   /\ rendered' = rendered
              ELSE /\ rendered' = [rendered EXCEPT !.Deploy =
                                      Append(@, [Name |-> deploy.Name,
                                                 BuildID |-> deploy.BuildID,
                                                 Manifests |-> m.manifests])]
                   /\ UNCHANGED <<rpc, rres>>
    /\ UNCHANGED <<rconfig, rctx, heap, besidesRender>>

\* lines 151-202, one pass of the loop over config.Deploy
RenderDeployStep ==
    /\ rpc = "deploys"
    /\ Len(rendered.Deploy) < Len(rconfig.Deploy)
    /\ LET i == Len(rendered.Deploy) + 1
           deploy == rconfig.Deploy[i]
           lb == linkedBuild(rendered.Build, deploy.BuildID)
       IN  IF lb = 0
           THEN /\ rres' = [NoConfig EXCEPT !.err = NotFoundRErr(i - 1, deploy.BuildID)]
                /\ rpc' = "returned"
                /\ UNCHANGED <<rendered, deployCtxs>>
           ELSE LET deployCtx == [rctx EXCEPT !.BUILD_TAGS = rendered.Build[lb].Tags]
                    m == renderManifests(deploy.Manifests, Deref(deployCtx, heap))
                IN  /\ deployCtxs' = Append(deployCtxs, deployCtx)
                    /\ IF m.err # NoTErr
                       THEN /\ rres' = [NoConfig EXCEPT
                                           !.err = ValueRErr(i - 1, m.at[1], m.at[2], m.err)]
                            /\ rpc' = "returned"
                            /\ rendered' = rendered
                       ELSE /\ rendered' = [rendered EXCEPT !.Deploy =
                                               Append(@, [Name |-> deploy.Name,
                                                          BuildID |-> deploy.BuildID,
                                                          Manifests |-> m.manifests])]
                            /\ UNCHANGED <<rpc, rres>>
    /\ UNCHANGED <<rconfig, rctx, heap, besidesRender>>

\* line 204: return rendered, nil
RenderReturn ==
    /\ rpc = "deploys"
    /\ Len(rendered.Deploy) = Len(rconfig.Deploy)
    /\ rres' = [nil |-> FALSE, config |-> rendered, err |-> NoRErr]
    /\ rpc' = "returned"
    /\ UNCHANGED <<rconfig, rctx, heap, rendered, deployCtxs, besidesRender>>

NextRender == RenderBuildStep \/ RenderBuildsDone \/ RenderDeployStep \/ RenderReturn

SpecRender == InitRender /\ [][NextRender]_vars

(***************************************************************************)
(* Validate and RenderConfig as whole calls, for the callers of the two.   *)
(***************************************************************************)
\* validate.go lines 21-26: the loop over config.Build from position i on
RECURSIVE validateBuilds(_, _, _)
validateBuilds(builds, i, names) ==
    IF i > Len(builds) THEN [err |-> NoVErr, names |-> names]
    ELSE LET e == validateBuild(builds[i], i - 1, names)
         IN  IF e # NoVErr THEN [err |-> e, names |-> names]
             ELSE validateBuilds(builds, i + 1, names \cup {builds[i].Name})

\* validate.go lines 30-35: the loop over config.Deploy from position i on
RECURSIVE validateDeploys(_, _, _, _)
validateDeploys(deploys, i, dnames, bnames) ==
    IF i > Len(deploys) THEN NoVErr
    ELSE LET e == validateDeploy(deploys[i], i - 1, dnames, bnames)
         IN  IF e # NoVErr THEN e
             ELSE validateDeploys(deploys, i + 1, dnames \cup {deploys[i].Name}, bnames)

Validate(config) ==
    IF config.Version # "1" THEN VErr(<<>>, "unsupported version")
    ELSE LET b == validateBuilds(config.Build, 1, {})
         IN  IF b.err # NoVErr THEN b.err
             ELSE validateDeploys(config.Deploy, 1, {}, b.names)

\* a config whose override values are piece sequences, with the values as
\* the strings Validate compares with ""
ValueText(config) ==
    [config EXCEPT !.Deploy =
        [i \in 1..Len(config.Deploy) |->
            [config.Deploy[i] EXCEPT !.Manifests =
                [j \in 1..Len(config.Deploy[i].Manifests) |->
                    [config.Deploy[i].Manifests[j] EXCEPT !.Overrides =
                        [k \in 1..Len(config.Deploy[i].Manifests[j].Overrides) |->
                            [config.Deploy[i].Manifests[j].Overrides[k] EXCEPT
                                !.Value = Join(@)]]]]]]]

\* template.go lines 151-202 for the deploy at position i (0-based index
\* i - 1), builds being rendered.Build
renderDeploy(deploy, i, builds, ctx) ==
    LET lb == linkedBuild(builds, deploy.BuildID)
    IN  IF lb = 0
        THEN [err |-> NotFoundRErr(i - 1, deploy.BuildID), deploy |-> <<>>]
        ELSE LET m == renderManifests(deploy.Manifests,
                                      [ctx EXCEPT !.BUILD_TAGS = builds[lb].Tags])
             IN  IF m.err # NoTErr
                 THEN [err |-> ValueRErr(i - 1, m.at[1], m.at[2], m.err), deploy |-> <<>>]
                 ELSE [err |-> NoRErr,
                       deploy |-> [Name |-> deploy.Name, BuildID |-> deploy.BuildID,
                                   Manifests |-> m.manifests]]

\* lines 130-148: the loop over config.Build, every pass of it
renderBuilds(builds, ctx) ==
    [i \in 1..Len(builds) |-> renderTags(builds[i].Tags, ctx, <<>>)]

\* rendered.Build once the loop over config.Build is through, bs being the
\* results of its passes
renderedBuilds(builds, bs) ==
    [i \in 1..Len(builds) |-> [builds[i] EXCEPT !.Tags = bs[i].tags]]

\* lines 151-202: the loop over config.Deploy, every pass of it
renderDeploys(deploys, builds, ctx) ==
    [i \in 1..Len(deploys) |-> renderDeploy(deploys[i], i, builds, ctx)]

\* what RenderConfig returns, bs and ds being the results of the passes of
\* its two loops: the first error in loop order, or the rendered config
renderResult(config, bs, ds) ==
    LET badB == {i \in 1..Len(bs) : bs[i].err # NoTErr}
        badD == {i \in 1..Len(ds) : ds[i].err # NoRErr}
    IN  IF badB # {}
        THEN LET i == CHOOSE x \in badB : \A y \in badB : x <= y
             IN  [NoConfig EXCEPT !.err = BuildTagRErr(i - 1, Len(bs[i].tags), bs[i].err)]
        ELSE IF badD # {}
        THEN LET i == CHOOSE x \in badD : \A y \in badD : x <= y
             IN  [NoConfig EXCEPT !.err = ds[i].err]
        ELSE [nil |-> FALSE, err |-> NoRErr,
              config |-> [Version |-> config.Version,
                          Build |-> renderedBuilds(config.Build, bs),
                          Deploy |-> [i \in 1..Len(ds) |-> ds[i].deploy]]]

\* RenderConfig on a config whose Tags are held by value.  RenderString has
\* no effect, so the result is decided by the results of all passes.  (bs
\* and ds range over one-element sets: each loop is evaluated once.)
RenderConfig(config, ctx) ==
    CHOOSE r \in
        UNION {{renderResult(config, bs, ds) :
                   ds \in {renderDeploys(config.Deploy,
                                         renderedBuilds(config.Build, bs), ctx)}} :
               bs \in {renderBuilds(config.Build, ctx)}} : TRUE

(***************************************************************************)
(* Claims about RenderConfig.                                              *)
(***************************************************************************)
\* short is the first 12 characters of sha, or sha when it has no more
IsShortOf(short, sha) ==
    IF Len(sha) > 12
    THEN Len(short) = 12 /\ \A k \in 1..12 : short[k] = sha[k]
    ELSE short = sha

\* the addresses of the slices the caller handed in
InputAddrs == {rctx.BUILD_TAGS} \cup {rconfig.Build[b].Tags : b \in 1..Len(rconfig.Build)}

\* the tags of build b as the specification renders them: every action of
\* the tag template replaced by its value in the caller's context
ExpectedTags(b) ==
    [t \in 1..Len(heap[rconfig.Build[b].Tags]) |->
        Substituted(heap[rconfig.Build[b].Tags][t], 1, Deref(rctx, heap))]

\* the build a deploy names (build names are distinct)
BuildNamed(id) == CHOOSE b \in 1..Len(rconfig.Build) : rconfig.Build[b].Name = id

\* the value is one reference {{ .BUILD_TAG[n] }} and nothing else
IsSingleRef(v) == Len(v) > 0 /\ refEnd(v, 1, FALSE) = Len(v)

\* the deploys whose buildId is the name of no build
Dangling ==
    {i \in 1..Len(rconfig.Deploy) :
        \A b \in 1..Len(rconfig.Build) : rconfig.Build[b].Name # rconfig.Deploy[i].BuildID}

\* C12: in every template context of a run, the base context and every
\* per-deploy copy, COMMIT_SHORT is the first 12 characters of COMMIT_SHA
\* when COMMIT_SHA is longer than 12 characters and COMMIT_SHA otherwise.
C12_CommitShort ==
    rpc # "idle" =>
        /\ IsShortOf(rctx.COMMIT_SHORT, rctx.COMMIT_SHA)
        /\ \A k \in 1..Len(deployCtxs) :
               /\ deployCtxs[k].COMMIT_SHA = rctx.COMMIT_SHA
               /\ IsShortOf(deployCtxs[k].COMMIT_SHORT, deployCtxs[k].COMMIT_SHA)

C12_Witness ==
    /\ rpc = "returned"
    /\ Len(deployCtxs) = 2
    /\ Len(rctx.COMMIT_SHA) = 40
    /\ deployCtxs[2].COMMIT_SHORT = SubSeq(Sha40, 1, 12)

\* C16: RenderConfig never changes what it was handed: the config, the
\* context, and the arrays behind their slices (BUILD_TAGS included) stay
\* as they were at every step of the call, whether it succeeds or fails.
C16_InputsUntouched ==
    [][rpc # "idle" =>
          /\ rconfig' = rconfig
          /\ rctx' = rctx
          /\ \A a \in InputAddrs : heap'[a] = heap[a]]_vars

C16_Witness ==
    /\ rpc = "returned"
    /\ ~rres.nil
    /\ Len(rconfig.Build) = 2
    /\ rres.config.Build[1].Tags \notin InputAddrs
    /\ heap[rres.config.Build[1].Tags] # heap[rconfig.Build[1].Tags]

\* C17: in the config RenderConfig returns, an override value that was
\* {{ .BUILD_TAG[n] }} is the n-th rendered tag of the build named by the
\* deploy's buildId, which exists and has such a tag: not the tag template,
\* not a tag of another build.
C17_OverrideSeesLinkedBuildTags ==
    (rpc = "returned" /\ ~rres.nil) =>
        \A i \in 1..Len(rconfig.Deploy) :
            \A j \in 1..Len(rconfig.Deploy[i].Manifests) :
                \A k \in 1..Len(rconfig.Deploy[i].Manifests[j].Overrides) :
                    LET v == rconfig.Deploy[i].Manifests[j].Overrides[k].Value
                        n == Atoi(refIndex(v, 1, FALSE)).n
                    IN  IsSingleRef(v) =>
                            /\ \E b \in 1..Len(rconfig.Build) :
                                   rconfig.Build[b].Name = rconfig.Deploy[i].BuildID
                            /\ n + 1 \in 1..Len(ExpectedTags(BuildNamed(rconfig.Deploy[i].BuildID)))
                            /\ rres.config.Deploy[i].Manifests[j].Overrides[k].Value
                                = ExpectedTags(BuildNamed(rconfig.Deploy[i].BuildID))[n + 1]

C17_Witness ==
    /\ rpc = "returned"
    /\ ~rres.nil
    /\ Len(rconfig.Build) = 2
    /\ heap[rconfig.Build[1].Tags] = <<ApiTag, LatestTag>>
    /\ Len(rconfig.Deploy) = 1
    /\ rconfig.Deploy[1].BuildID = "web"
    /\ rconfig.Deploy[1].Manifests[1].Overrides[1].Value = BuildTagRef(<<"0">>)
    /\ rres.config.Deploy[1].Manifests[1].Overrides[1].Value = <<"registry/web", ":", "main">>

\* C18: when some deploy's buildId is the name of no build, RenderConfig
\* returns no config and an error; the error is "not found" for the first
\* such deploy unless a build tag or an override value before that deploy
\* failed to render first.
C18_UnknownBuildIdFails ==
    (rpc = "returned" /\ Dangling # {}) =>
        LET f == CHOOSE i \in Dangling : \A d \in Dangling : i <= d
        IN  /\ rres.nil
            /\ \/ /\ rres.err.kind = "not found"
                  /\ rres.err.at = <<f - 1>>
                  /\ rres.err.buildId = rconfig.Deploy[f].BuildID
               \/ rres.err.kind = "failed to render build tag"
               \/ /\ rres.err.kind = "failed to render override value"
                  /\ rres.err.at[1] < f - 1

C18_Witness ==
    /\ rpc = "returned"
    /\ Len(rconfig.Build) = 1
    /\ Dangling = {2}
    /\ rres.nil
    /\ rres.err = NotFoundRErr(1, "ghost")

(***************************************************************************)
(* Part 5.  HandlePushEvent(ctx, config, pushEvent) (webhooks/service.go). *)
(* One action per statement that can end the run or calls outside the      *)
(* process.  Refs are piece sequences like templates: "refs/heads/" and    *)
(* "refs/tags/" are pieces, a SHA is a sequence of single characters.      *)
(***************************************************************************)
HexChars == Digits \cup {"a", "b", "c", "d", "e", "f", "A", "B", "C", "D", "E", "F"}

isHexString(str) == \A k \in 1..Len(str) : str[k] \in HexChars

\* variant: a commit SHA is kept as the branch
extractBranch_keepSha(ref) ==
    IF ref = <<>> THEN <<>>
    ELSE IF Head(ref) = "refs/heads/" THEN Tail(ref)
    ELSE IF Head(ref) = "refs/tags/" THEN Tail(ref)
    ELSE ref

extractBranch(ref) ==
    IF ref = <<>> THEN <<>>
    ELSE IF Head(ref) = "refs/heads/" THEN Tail(ref)
    ELSE IF Head(ref) = "refs/tags/" THEN Tail(ref)
    ELSE IF Len(ref) = 40 /\ isHexString(ref) THEN <<>>
    ELSE ref

\* variant: the variant of normalizeRefForTag that shortens every
\* hexadecimal ref
normalizeRefForTag_anyHex(ref, commitSHA) ==
    IF ref = <<>>
    THEN IF Len(commitSHA) > 12 THEN SubSeq(commitSHA, 1, 12) ELSE commitSHA
    ELSE IF Head(ref) = "refs/heads/" THEN Tail(ref)
    ELSE IF Head(ref) = "refs/tags/" THEN Tail(ref)
    ELSE IF isHexString(ref) THEN SubSeq(ref, 1, 12)
    ELSE ref

\* a ref is a sequence of characters, after the piece "refs/heads/" or
\* "refs/tags/" when it starts with that prefix
normalizeRefForTag(ref, commitSHA) ==
    IF ref = <<>>
    THEN IF Len(commitSHA) > 12 THEN SubSeq(commitSHA, 1, 12) ELSE commitSHA
    ELSE IF Head(ref) = "refs/heads/" THEN Tail(ref)
    ELSE IF Head(ref) = "refs/tags/" THEN Tail(ref)
    ELSE IF Len(ref) = 40 /\ isHexString(ref) THEN SubSeq(ref, 1, 12)
    ELSE ref

\* variant: the image reference is split at its first colon
parseImageTag_firstColon(imageTag) ==
    LET colons == {k \in 1..Len(imageTag) : imageTag[k] = ":"}
    IN  IF colons = {}
        THEN [imageName |-> imageTag, tag |-> <<"latest">>]
        ELSE LET first == CHOOSE k \in colons : \A c \in colons : k <= c
             IN  [imageName |-> SubSeq(imageTag, 1, first - 1),
                  tag |-> SubSeq(imageTag, first + 1, Len(imageTag))]

\* strings.Split(imageTag, ":"): the last part is the tag, the parts before
\* it joined with ":" are the image name
parseImageTag(imageTag) ==
    LET colons == {k \in 1..Len(imageTag) : imageTag[k] = ":"}
    IN  IF colons = {}
        THEN [imageName |-> imageTag, tag |-> <<"latest">>]
        ELSE LET last == CHOOSE k \in colons : \A c \in colons : c <= k
             IN  [imageName |-> SubSeq(imageTag, 1, last - 1),
                  tag |-> SubSeq(imageTag, last + 1, Len(imageTag))]

\* fmt.Sprintf("%s:%s", imageName, tagValue)
imageRef(tagStr) ==
    parseImageTag(tagStr).imageName \o <<":">> \o parseImageTag(tagStr).tag

\* the stored connection (configs.Config) the event is handled for
Connection ==
    [ID |-> "c1", RepoFullName |-> "acme/app", RepoOwner |-> "acme", RepoName |-> "app"]

\* push events: the repository's full name, the ref, and the SHA and ID
\* fields of the head commit (empty when the event does not carry them)
EventPool ==
    [repo : {"acme/app", "evil/app"},
     ref : {<<>>, <<"refs/heads/", "main">>, <<"refs/tags/", "v1">>, <<"d", "e", "v">>, Sha40},
     headSHA : {<<>>, Sha40},
     headID : {<<>>, Sha40}]

\* nimbul.yaml files a repository may hold
GoodConfig ==
    [Version |-> "1",
     Build |-> << [Name |-> "api", Dockerfile |-> "Dockerfile", Context |-> ".",
                   Tags |-> <<ApiTag, LatestTag>>],
                  [Name |-> "web", Dockerfile |-> "web/Dockerfile", Context |-> "web",
                   Tags |-> <<WebTag>>] >>,
     Deploy |-> << [Name |-> "d1", BuildID |-> "api",
                    Manifests |->
                        <<Manifest("k8s/deploy.yaml",
                                   <<Override(ImagePath, "Deployment", "",
                                              BuildTagRef(<<"0">>))>>),
                          Manifest("k8s/svc.yaml", <<>>)>>],
                   [Name |-> "d2", BuildID |-> "web",
                    Manifests |-> <<Manifest("k8s/web.yaml", <<>>)>>] >>]

\* valid, but BUILD_TAG[10] does not render
UnrenderableConfig ==
    [GoodConfig EXCEPT !.Deploy[1].Manifests[1].Overrides[1].Value =
                           BuildTagRef(<<"1", "0">>)]

\* the deploy names a build that does not exist
GhostConfig == [GoodConfig EXCEPT !.Deploy[2].BuildID = "ghost"]

ConfigPool ==
    {GoodConfig, UnrenderableConfig, GhostConfig,
     [GoodConfig EXCEPT !.Version = "2"],
     [Version |-> "1", Build |-> <<>>, Deploy |-> <<>>]}

RepoFilePool ==
    {[kind |-> "missing", config |-> EmptyCfg], [kind |-> "no yaml", config |-> EmptyCfg]}
    \cup {[kind |-> "config", config |-> c] : c \in ConfigPool}

\* the (build, tag) pairs of the build loops, in loop order
RECURSIVE BuildQueue(_)
BuildQueue(builds) ==
    IF builds = <<>> THEN <<>>
    ELSE [t \in 1..Len(Head(builds).Tags) |->
             [build |-> Head(builds).Name, tag |-> Head(builds).Tags[t]]]
         \o BuildQueue(Tail(builds))

\* the (deploy, manifest) pairs of the deploy loops, in loop order
RECURSIVE ManifestQueue(_)
ManifestQueue(deploys) ==
    IF deploys = <<>> THEN <<>>
    ELSE [m \in 1..Len(Head(deploys).Manifests) |->
             [deploy |-> Head(deploys).Name, manifest |-> Head(deploys).Manifests[m]]]
         \o ManifestQueue(Tail(deploys))

\* an external call: what was called, with what, and whether it succeeded
Call(op, arg, ok) == [op |-> op, arg |-> arg, ok |-> ok]

StageOrder ==
    <<"ReceivedEvent", "RepoResolved", "Cloned", "ConfigParsed", "ConfigValidated",
      "ConfigRendered", "Building", "Deploying", "Complete">>

InitPipeline ==
    /\ ev \in EventPool
    /\ ppc = "verify"
    /\ stages = <<"ReceivedEvent">>
    /\ workRef = <<>>
    /\ pcommit = <<>>
    /\ tempDir = FALSE
    /\ pcfg = EmptyCfg
    /\ pctx = NewTemplateContext(<<>>, <<>>, <<>>)
    /\ prendered = EmptyCfg
    /\ ppos = [b |-> 1, m |-> 1]
    /\ log = <<>>
    /\ perr = ""
    /\ cancelled = FALSE
    /\ cancelAt = 0
    /\ OverridesIdle
    /\ ValidateIdle
    /\ TemplateIdle
    /\ RenderIdle
    /\ HelpersIdle
    /\ RunsIdle
    /\ ParseIdle

\* variant: a call that is handed ctx goes on although ctx is done
Outcomes_ignoreCtx == BOOLEAN

\* what a call that is handed ctx can return: it fails once ctx is done
Outcomes == IF cancelled THEN {FALSE} ELSE BOOLEAN

\* the caller cancels ctx, or its deadline passes, while the run is under way
Cancel ==
    /\ ppc \notin {"idle", "returned"}
    /\ ~cancelled
    /\ cancelled' = TRUE
    /\ cancelAt' = Len(log)
    /\ UNCHANGED <<ev, ppc, stages, workRef, pcommit, tempDir, pcfg, pctx, prendered, ppos,
                   log, perr, besidesPipeline>>

\* variant: an error return that leaves the workspace behind
Fail_leak(reason) ==
    /\ perr' = reason
    /\ stages' = Append(stages, "Failed")
    /\ ppc' = "returned"

\* return fmt.Errorf(...): the deferred cleanup runs when the workspace exists
Fail(reason) ==
    /\ perr' = reason
    /\ stages' = Append(stages, "Failed")
    /\ ppc' = IF tempDir THEN "deferred" ELSE "returned"

\* the run goes on to the statement at next, entering the stages in entered
Goto(next, entered) ==
    /\ ppc' = next
    /\ stages' = stages \o entered
    /\ perr' = perr

\* variant: the repository names are not compared
VerifyRepo_ignore ==
    /\ ppc = "verify"
    /\ Goto("ref", <<>>)
    /\ UNCHANGED <<ev, workRef, pcommit, tempDir, pcfg, pctx, prendered, ppos, log, cancelled, cancelAt,
                   besidesPipeline>>

\* lines 31-33
VerifyRepo ==
    /\ ppc = "verify"
    /\ IF ev.repo # Connection.RepoFullName
       THEN Fail("repository mismatch")
       ELSE Goto("ref", <<>>)
    /\ UNCHANGED <<ev, workRef, pcommit, tempDir, pcfg, pctx, prendered, ppos, log, cancelled, cancelAt,
                   besidesPipeline>>

\* variant: the commit is required only when the event carries no ref
ResolveRef_requiredWithoutRef ==
    /\ ppc = "ref"
    /\ workRef' = IF ev.ref = <<>> THEN ev.headSHA ELSE ev.ref
    /\ IF ev.headID = <<>> /\ ev.ref = <<>>
       THEN Fail("push event missing head commit SHA") /\ pcommit' = pcommit
       ELSE Goto("installation", <<"RepoResolved">>) /\ pcommit' = ev.headID
    /\ UNCHANGED <<ev, tempDir, pcfg, pctx, prendered, ppos, log, cancelled, cancelAt, besidesPipeline>>

\* lines 36-46
ResolveRef ==
    /\ ppc = "ref"
    /\ workRef' = IF ev.ref = <<>> THEN ev.headSHA ELSE ev.ref
    /\ IF ev.headID = <<>>
       THEN Fail("push event missing head commit SHA") /\ pcommit' = pcommit
       ELSE Goto("installation", <<"RepoResolved">>) /\ pcommit' = ev.headID
    /\ UNCHANGED <<ev, tempDir, pcfg, pctx, prendered, ppos, log, cancelled, cancelAt, besidesPipeline>>

\* lines 49-52
GetInstallationID ==
    /\ ppc = "installation"
    /\ \E ok \in Outcomes :
          /\ log' = Append(log, Call("installation", <<>>, ok))
          /\ IF ok THEN Goto("mkdir", <<>>) ELSE Fail("failed to get installation ID")
    /\ UNCHANGED <<ev, workRef, pcommit, tempDir, pcfg, pctx, prendered, ppos, cancelled, cancelAt,
                   besidesPipeline>>

\* lines 55-63: os.MkdirTemp, and the deferred cleanup once it succeeded
MakeTempDir ==
    /\ ppc = "mkdir"
    /\ \E ok \in BOOLEAN :
          /\ log' = Append(log, Call("mkdir", <<>>, ok))
          /\ tempDir' = ok
          /\ IF ok THEN Goto("clone", <<>>) ELSE Fail("failed to create temp directory")
    /\ UNCHANGED <<ev, workRef, pcommit, pcfg, pctx, prendered, ppos, cancelled, cancelAt, besidesPipeline>>

\* lines 66-68
CloneRepository ==
    /\ ppc = "clone"
    /\ \E ok \in Outcomes :
          /\ log' = Append(log, Call("clone", workRef, ok))
          /\ IF ok THEN Goto("parse", <<"Cloned">>) ELSE Fail("failed to clone repository")
    /\ UNCHANGED <<ev, workRef, pcommit, tempDir, pcfg, pctx, prendered, ppos, cancelled, cancelAt,
                   besidesPipeline>>

\* lines 71-75: the file is whatever the cloned repository holds
ParseFile ==
    /\ ppc = "parse"
    /\ \E file \in RepoFilePool :
          IF file.kind = "config"
          THEN Goto("validate", <<"ConfigParsed">>) /\ pcfg' = file.config
          ELSE Fail("failed to parse nimbul.yaml") /\ pcfg' = pcfg
    /\ UNCHANGED <<ev, workRef, pcommit, tempDir, pctx, prendered, ppos, log, cancelled, cancelAt,
                   besidesPipeline>>

\* variant: a validation error does not end the run
ValidateConfig_goOn ==
    /\ ppc = "validate"
    /\ Goto("render", <<"ConfigValidated">>)
    /\ UNCHANGED <<ev, workRef, pcommit, tempDir, pcfg, pctx, prendered, ppos, log, cancelled, cancelAt,
                   besidesPipeline>>

\* lines 78-80
ValidateConfig ==
    /\ ppc = "validate"
    /\ IF Validate(ValueText(pcfg)) = NoVErr
       THEN Goto("render", <<"ConfigValidated">>)
       ELSE Fail("invalid nimbul.yaml")
    /\ UNCHANGED <<ev, workRef, pcommit, tempDir, pcfg, pctx, prendered, ppos, log, cancelled, cancelAt,
                   besidesPipeline>>

\* lines 83-90
RenderTemplates ==
    /\ ppc = "render"
    /\ \E templateCtx \in {NewTemplateContext(pcommit, extractBranch(workRef),
                                             <<Connection.RepoFullName>>)} :
       \E r \in {RenderConfig(pcfg, templateCtx)} :
           /\ pctx' = templateCtx
           /\ IF r.nil
              THEN Fail("failed to render nimbul.yaml templates") /\ prendered' = prendered
              ELSE Goto("builder", <<"ConfigRendered">>) /\ prendered' = r.config
    /\ UNCHANGED <<ev, workRef, pcommit, tempDir, pcfg, ppos, log, cancelled, cancelAt, besidesPipeline>>

\* line 93
NewBuilder ==
    /\ ppc = "builder"
    /\ Goto("build", <<"Building">>)
    /\ UNCHANGED <<ev, workRef, pcommit, tempDir, pcfg, pctx, prendered, ppos, log, cancelled, cancelAt,
                   besidesPipeline>>

\* variant: a failed build is reported and the loop goes on
BuildAndPush_continue ==
    /\ ppc = "build"
    /\ ppos.b <= Len(BuildQueue(prendered.Build))
    /\ \E ok \in Outcomes :
          /\ log' = Append(log, Call("build",
                                     imageRef(BuildQueue(prendered.Build)[ppos.b].tag), ok))
          /\ Goto("build", <<>>)
          /\ ppos' = [ppos EXCEPT !.b = @ + 1]
    /\ UNCHANGED <<ev, workRef, pcommit, tempDir, pcfg, pctx, prendered, cancelled, cancelAt,
                   besidesPipeline>>

\* lines 107-122, one pass of the loop over build.Tags.  (filepath.Rel of
\* two paths under tempDir, lines 101-104, does not fail.)
BuildAndPush ==
    /\ ppc = "build"
    /\ ppos.b <= Len(BuildQueue(prendered.Build))
    /\ \E ok \in Outcomes :
          /\ log' = Append(log, Call("build",
                                     imageRef(BuildQueue(prendered.Build)[ppos.b].tag), ok))
          /\ IF ok
             THEN Goto("build", <<>>) /\ ppos' = [ppos EXCEPT !.b = @ + 1]
             ELSE Fail("failed to build Docker image") /\ ppos' = ppos
    /\ UNCHANGED <<ev, workRef, pcommit, tempDir, pcfg, pctx, prendered, cancelled, cancelAt, besidesPipeline>>

\* the loop over renderedConfig.Build is over; line 126
BuildsComplete ==
    /\ ppc = "build"
    /\ ppos.b > Len(BuildQueue(prendered.Build))
    /\ Goto("deploy", <<"Deploying">>)
    /\ UNCHANGED <<ev, workRef, pcommit, tempDir, pcfg, pctx, prendered, ppos, log, cancelled, cancelAt,
                   besidesPipeline>>

\* what can happen to one manifest: the step that fails, or "applied"
ManifestOutcomes ==
    {"failed to parse manifest file", "failed to apply overrides",
     "failed to serialize manifest", "failed to apply manifest", "applied"}

\* variant: a manifest that fails is skipped and the loop goes on
ProcessManifest_continue ==
    /\ ppc = "deploy"
    /\ ppos.m <= Len(ManifestQueue(prendered.Deploy))
    /\ \E outcome \in ManifestOutcomes :
          LET path == ManifestQueue(prendered.Deploy)[ppos.m].manifest.Path
          IN  /\ outcome = "applied" => TRUE \in Outcomes
              /\ log' = IF outcome \in {"failed to apply manifest", "applied"}
                        THEN Append(log, Call("apply", <<path>>, outcome = "applied"))
                        ELSE log
              /\ Goto("deploy", <<>>)
              /\ ppos' = [ppos EXCEPT !.m = @ + 1]
    /\ UNCHANGED <<ev, workRef, pcommit, tempDir, pcfg, pctx, prendered, cancelled, cancelAt,
                   besidesPipeline>>

\* lines 127-154, one pass of the loop over deploy.Manifests.  The file and
\* the cluster decide the outcome; k8s.ApplyManifests is reached when the
\* three steps before it succeeded, and hands ctx to the apply request of
\* each document of the file.
ProcessManifest ==
    /\ ppc = "deploy"
    /\ ppos.m <= Len(ManifestQueue(prendered.Deploy))
    /\ \E outcome \in ManifestOutcomes :
          LET path == ManifestQueue(prendered.Deploy)[ppos.m].manifest.Path
          IN  /\ outcome = "applied" => TRUE \in Outcomes
              /\ log' = IF outcome \in {"failed to apply manifest", "applied"}
                        THEN Append(log, Call("apply", <<path>>, outcome = "applied"))
                        ELSE log
              /\ IF outcome = "applied"
                 THEN Goto("deploy", <<>>) /\ ppos' = [ppos EXCEPT !.m = @ + 1]
                 ELSE Fail(outcome) /\ ppos' = ppos
    /\ UNCHANGED <<ev, workRef, pcommit, tempDir, pcfg, pctx, prendered, cancelled, cancelAt, besidesPipeline>>

\* variant: the run is reported complete before the cluster is queried
TestKubernetesClient_completeFirst ==
    /\ ppc = "deploy"
    /\ ppos.m > Len(ManifestQueue(prendered.Deploy))
    /\ \E outcome \in {"failed to initialize Kubernetes client",
                       "failed to get Kubernetes server version", ""} :
          /\ log' = Append(log, Call("server version", <<>>, outcome = ""))
          /\ perr' = outcome
          /\ stages' = stages \o (IF outcome = "" THEN <<"Complete">>
                                  ELSE <<"Complete", "Failed">>)
          /\ ppc' = "deferred"
    /\ UNCHANGED <<ev, workRef, pcommit, tempDir, pcfg, pctx, prendered, ppos, cancelled, cancelAt,
                   besidesPipeline>>

\* lines 157-174: the loops over renderedConfig.Deploy are over; the
\* cluster is asked for its version, and the run returns nil
TestKubernetesClient ==
    /\ ppc = "deploy"
    /\ ppos.m > Len(ManifestQueue(prendered.Deploy))
    /\ \E outcome \in {"failed to initialize Kubernetes client",
                       "failed to get Kubernetes server version", ""} :
          /\ log' = Append(log, Call("server version", <<>>, outcome = ""))
          /\ IF outcome = "" THEN Goto("deferred", <<"Complete">>) ELSE Fail(outcome)
    /\ UNCHANGED <<ev, workRef, pcommit, tempDir, pcfg, pctx, prendered, ppos, cancelled, cancelAt,
                   besidesPipeline>>

\* lines 59-63: the deferred github.CleanupRepository(tempDir); its error is
\* printed as a warning only
CleanupRepository ==
    /\ ppc = "deferred"
    /\ \E ok \in BOOLEAN : log' = Append(log, Call("cleanup", <<>>, ok))
    /\ ppc' = "returned"
    /\ UNCHANGED <<ev, stages, workRef, pcommit, tempDir, pcfg, pctx, prendered, ppos, perr, cancelled, cancelAt,
                   besidesPipeline>>

NextPipeline ==
    \/ VerifyRepo \/ ResolveRef \/ GetInstallationID \/ MakeTempDir \/ CloneRepository
    \/ ParseFile \/ ValidateConfig \/ RenderTemplates \/ NewBuilder \/ BuildAndPush
    \/ BuildsComplete \/ ProcessManifest \/ TestKubernetesClient \/ CleanupRepository
    \/ Cancel

SpecPipeline == InitPipeline /\ [][NextPipeline]_vars

(***************************************************************************)
(* Claims about HandlePushEvent.                                           *)
(***************************************************************************)
\* the stages entered so far are the first stages of StageOrder, in order
InOrder(entered) ==
    /\ Len(entered) <= Len(StageOrder)
    /\ \A k \in 1..Len(entered) : entered[k] = StageOrder[k]

\* C19: the stages a run has entered are the first stages of ReceivedEvent,
\* RepoResolved, Cloned, ConfigParsed, ConfigValidated, ConfigRendered,
\* Building, Deploying, Complete in that order, none left out and none
\* twice, or fewer than all of them followed by Failed as the last entry;
\* Failed is entered exactly when the run has an error, and a run that has
\* returned is in Complete or in Failed.
C19_StagesInOrder ==
    /\ stages # <<>>
    /\ IF stages[Len(stages)] = "Failed"
       THEN /\ InOrder(SubSeq(stages, 1, Len(stages) - 1))
            /\ Len(stages) - 1 \in 1..(Len(StageOrder) - 1)
            /\ perr # ""
       ELSE InOrder(stages) /\ perr = ""
    /\ ppc = "returned" => stages[Len(stages)] \in {"Complete", "Failed"}

C19_Witness ==
    /\ ppc = "returned"
    /\ stages = StageOrder
    /\ perr = ""

\* C20: once the repository check of a run whose event names another
\* repository than the connection is through, the run has returned the
\* repository-mismatch error, it has no workspace, and it has made no
\* call outside the process (no directory creation, clone, build or apply).
C20_RepositoryMismatchIsFatal ==
    (ev.repo # Connection.RepoFullName /\ ppc # "verify") =>
        /\ ppc = "returned"
        /\ perr = "repository mismatch"
        /\ stages = <<"ReceivedEvent", "Failed">>
        /\ ~tempDir
        /\ log = <<>>

C20_Witness ==
    /\ ev.repo = "evil/app"
    /\ ev.headID = Sha40
    /\ ppc = "returned"
    /\ perr = "repository mismatch"
    /\ log = <<>>

\* C21: once the commit step of a run whose event carries no head commit
\* (the value the code reads as commitSHA) is through, the run has returned
\* an error, with or without a ref in the event: the missing-commit error
\* when the repository is the connection's.  It has no workspace and has
\* made no call outside the process.
C21_MissingCommitIsFatal ==
    (ev.headID = <<>> /\ ppc \notin {"verify", "ref"}) =>
        /\ ppc = "returned"
        /\ stages = <<"ReceivedEvent", "Failed">>
        /\ perr = IF ev.repo = Connection.RepoFullName
                  THEN "push event missing head commit SHA"
                  ELSE "repository mismatch"
        /\ ~tempDir
        /\ log = <<>>

C21_Witness ==
    /\ ev.repo = Connection.RepoFullName
    /\ ev.ref = <<"refs/heads/", "main">>
    /\ ev.headID = <<>>
    /\ ppc = "returned"
    /\ perr = "push event missing head commit SHA"
    /\ log = <<>>

\* the positions of the workspace removals in the log of external calls
Cleanups == {k \in 1..Len(log) : log[k].op = "cleanup"}

\* C22: a run that made its workspace has attempted to remove it exactly
\* once when it returns, whatever made it return (success, an error of any
\* step, a call failing because the run was cancelled); the removal is the
\* last call of the run, and a run without a workspace attempts none.
C22_CleanupExactlyOnce ==
    /\ Cardinality(Cleanups) <= 1
    /\ \A k \in Cleanups : k = Len(log) /\ ppc = "returned" /\ tempDir
    /\ (ppc = "returned" /\ tempDir) => Cardinality(Cleanups) = 1

C22_Witness ==
    /\ ppc = "returned"
    /\ cancelled
    /\ perr = "failed to build Docker image"
    /\ Cardinality({k \in 1..Len(log) : log[k].op = "build"}) = 2
    /\ Cleanups = {Len(log)}

\* the calls of the log that start an image build or submit a manifest
SideEffects == {k \in 1..Len(log) : log[k].op \in {"build", "apply"}}

ConfigErrors ==
    {"failed to parse nimbul.yaml", "invalid nimbul.yaml",
     "failed to render nimbul.yaml templates"}

\* C23: a run that failed because nimbul.yaml is missing, does not parse,
\* is invalid or does not render has started no build and submitted no
\* manifest; and a run that has started a build or submitted a manifest
\* read a config that Validate accepts and RenderConfig renders, and works
\* on the rendered config.
C23_ConfigFailuresBeforeSideEffects ==
    /\ perr \in ConfigErrors => SideEffects = {}
    /\ SideEffects # {} =>
          /\ Validate(ValueText(pcfg)) = NoVErr
          /\ ~RenderConfig(pcfg, pctx).nil
          /\ prendered = RenderConfig(pcfg, pctx).config

C23_Witness ==
    /\ ppc = "returned"
    /\ pcfg = UnrenderableConfig
    /\ perr = "failed to render nimbul.yaml templates"
    /\ SideEffects = {}
    /\ Cleanups = {Len(log)}

IsBuild(call) == call.op = "build"
IsApply(call) == call.op = "apply"

\* the image builds attempted so far, in the order of the attempts
Builds == SelectSeq(log, IsBuild)

\* the image references the rendered config declares, in declaration order
DeclaredImages ==
    [k \in 1..Len(BuildQueue(prendered.Build)) |->
        imageRef(BuildQueue(prendered.Build)[k].tag)]

\* C24: the builds attempted so far are the first declared (build, tag)
\* pairs in declaration order, one attempt each; only the last attempt can
\* have failed, and then the run has failed and nothing is applied; a
\* manifest is submitted only after every declared pair was built with
\* success.
C24_BuildsInOrderFailFast ==
    /\ Len(Builds) <= Len(DeclaredImages)
    /\ \A k \in 1..Len(Builds) :
          /\ Builds[k].arg = DeclaredImages[k]
          /\ ~Builds[k].ok =>
                /\ k = Len(Builds)
                /\ perr = "failed to build Docker image"
                /\ \A j \in 1..Len(log) : ~IsApply(log[j])
    /\ \A j \in 1..Len(log) :
          IsApply(log[j]) =>
              /\ Len(Builds) = Len(DeclaredImages)
              /\ \A k \in 1..Len(Builds) : Builds[k].ok
              /\ \A i \in 1..Len(log) : IsBuild(log[i]) => i < j

C24_Witness ==
    /\ ppc = "returned"
    /\ ~cancelled
    /\ Len(DeclaredImages) = 3
    /\ Len(Builds) = 2
    /\ Builds[1].ok
    /\ ~Builds[2].ok
    /\ Builds[2].arg = <<"registry/api", ":", "latest">>
    /\ perr = "failed to build Docker image"

\* the manifests submitted to the cluster so far, in the order submitted
Applies == SelectSeq(log, IsApply)

\* the manifest paths the rendered config declares, in declaration order
DeclaredManifests ==
    [k \in 1..Len(ManifestQueue(prendered.Deploy)) |->
        ManifestQueue(prendered.Deploy)[k].manifest.Path]

ManifestErrors == ManifestOutcomes \ {"applied"}

\* C25: the manifests submitted so far are the first declared manifests in
\* declaration order (deploys in list order, their manifests in list
\* order), one submission each; once the parsing, overriding, serializing
\* or applying of a manifest has failed the run has failed with that error,
\* every manifest before it was applied and still is (the run makes no call
\* that undoes an apply), and no manifest after it is submitted.
C25_ManifestsInOrderFailFast ==
    /\ Len(Applies) <= Len(DeclaredManifests)
    /\ \A k \in 1..Len(Applies) :
          /\ Applies[k].arg = <<DeclaredManifests[k]>>
          /\ ~Applies[k].ok => k = Len(Applies) /\ perr = "failed to apply manifest"
    /\ perr \in ManifestErrors =>
          /\ ppc \in {"deferred", "returned"}
          /\ Len(Applies) = IF perr = "failed to apply manifest" THEN ppos.m ELSE ppos.m - 1
          /\ \A k \in 1..(ppos.m - 1) : Applies[k].ok
    /\ \A j \in 1..Len(log) :
          IsApply(log[j]) => \A i \in (j + 1)..Len(log) :
                                 log[i].op \in {"apply", "server version", "cleanup"}

C25_Witness ==
    /\ ppc = "returned"
    /\ Len(DeclaredManifests) = 3
    /\ Applies = <<Call("apply", <<"k8s/deploy.yaml">>, TRUE)>>
    /\ perr = "failed to apply overrides"

\* the run went through both loops, and every declared (build, tag) was
\* built and every declared manifest applied, all with success
EverythingDeployed ==
    /\ Len(stages) >= 8
    /\ SubSeq(stages, 1, 8) = SubSeq(StageOrder, 1, 8)
    /\ Len(Builds) = Len(DeclaredImages)
    /\ \A k \in 1..Len(Builds) : Builds[k].ok
    /\ Len(Applies) = Len(DeclaredManifests)
    /\ \A k \in 1..Len(Applies) : Applies[k].ok

\* C26: a run that has returned either returned nil after entering every
\* stage up to Complete or returned an error without entering Complete;
\* and a run in which every build and every manifest application succeeded
\* returned nil.
C26_NoPartialSuccess ==
    ppc = "returned" =>
        /\ (perr = "") = (stages = StageOrder)
        /\ (perr # "") = (stages[Len(stages)] = "Failed")
        /\ EverythingDeployed => perr = ""

(***************************************************************************)
(* Part 6.  The helper functions of package webhooks applied to arguments: *)
(* parseImageTag, normalizeRefForTag, extractBranch.  An image reference   *)
(* is a sequence of pieces in which every colon is a piece ":".            *)
(***************************************************************************)
ImageTagPool ==
    {<<>>, <<"img">>, <<"my-image", ":", "latest">>,
     <<"registry.io", ":", "5000/img", ":", "v1">>,
     <<"registry.io", ":", "5000/img">>, <<"img", ":">>, <<":", "v1">>}

\* refs: none, a branch, a tag, a commit SHA in lower and in upper case, 40
\* characters that are no SHA, 39 and 41 hexadecimal characters, a bare
\* branch name, and a branch named like a SHA
RefPool ==
    {<<>>, <<"refs/heads/", "m", "a", "i", "n">>, <<"refs/tags/", "v", "1">>,
     Sha40, [Sha40 EXCEPT ![1] = "A", ![2] = "B"], [Sha40 EXCEPT ![40] = "g"],
     SubSeq(Sha40, 1, 39), Sha40 \o <<"0">>, <<"m", "a", "i", "n">>,
     <<"refs/heads/">> \o Sha40}

InitHelpers ==
    /\ callIn \in [imageTag : ImageTagPool, ref : RefPool, commitSHA : ShaPool]
    /\ callOut = [parsed |-> <<>>, normalized |-> <<>>, branch |-> <<>>]
    /\ callDone = {}
    /\ OverridesIdle
    /\ ValidateIdle
    /\ TemplateIdle
    /\ RenderIdle
    /\ PipelineIdle
    /\ RunsIdle
    /\ ParseIdle

CallParseImageTag ==
    /\ "idle" \notin callDone /\ "parseImageTag" \notin callDone
    /\ callOut' = [callOut EXCEPT !.parsed = parseImageTag(callIn.imageTag)]
    /\ callDone' = callDone \cup {"parseImageTag"}
    /\ UNCHANGED <<callIn, besidesHelpers>>

CallNormalizeRefForTag ==
    /\ "idle" \notin callDone /\ "normalizeRefForTag" \notin callDone
    /\ callOut' = [callOut EXCEPT
                      !.normalized = normalizeRefForTag(callIn.ref, callIn.commitSHA)]
    /\ callDone' = callDone \cup {"normalizeRefForTag"}
    /\ UNCHANGED <<callIn, besidesHelpers>>

CallExtractBranch ==
    /\ "idle" \notin callDone /\ "extractBranch" \notin callDone
    /\ callOut' = [callOut EXCEPT !.branch = extractBranch(callIn.ref)]
    /\ callDone' = callDone \cup {"extractBranch"}
    /\ UNCHANGED <<callIn, besidesHelpers>>

NextHelpers == CallParseImageTag \/ CallNormalizeRefForTag \/ CallExtractBranch

SpecHelpers == InitHelpers /\ [][NextHelpers]_vars

(***************************************************************************)
(* Claims about the helper functions.                                      *)
(***************************************************************************)
HasColon(str) == \E k \in 1..Len(str) : str[k] = ":"

\* C27: parseImageTag returns (input, "latest") for an input without a
\* colon; otherwise name ":" tag is the input and the tag holds no colon,
\* i.e. the split is at the last colon and earlier colons stay in the name:
\* "my-image:latest" gives ("my-image", "latest"), "registry.io:5000/img:v1"
\* gives ("registry.io:5000/img", "v1"), "img" gives ("img", "latest").
C27_SplitAtLastColon ==
    "parseImageTag" \in callDone =>
        LET in == callIn.imageTag
            out == callOut.parsed
        IN  /\ IF HasColon(in)
               THEN /\ out.imageName \o <<":">> \o out.tag = in
                    /\ ~HasColon(out.tag)
               ELSE out = [imageName |-> in, tag |-> <<"latest">>]
            /\ in = <<"my-image", ":", "latest">> =>
                  out = [imageName |-> <<"my-image">>, tag |-> <<"latest">>]
            /\ in = <<"registry.io", ":", "5000/img", ":", "v1">> =>
                  out = [imageName |-> <<"registry.io", ":", "5000/img">>, tag |-> <<"v1">>]
            /\ in = <<"img">> => out = [imageName |-> <<"img">>, tag |-> <<"latest">>]

C27_Witness ==
    /\ "parseImageTag" \in callDone
    /\ callIn.imageTag = <<"registry.io", ":", "5000/img", ":", "v1">>
    /\ callOut.parsed.imageName = <<"registry.io", ":", "5000/img">>
    /\ callOut.parsed.tag = <<"v1">>

\* the first n characters of str, all of str when it has no more than n
FirstChars(str, n) == [k \in 1..(IF Len(str) < n THEN Len(str) ELSE n) |-> str[k]]

HasRefPrefix(ref) == ref # <<>> /\ ref[1] \in {"refs/heads/", "refs/tags/"}

\* exactly 40 characters, each a hexadecimal digit
IsCommitSha(ref) ==
    /\ Len(ref) = 40
    /\ \A k \in 1..40 : ref[k] \in Digits \cup {"a", "b", "c", "d", "e", "f"}
                                          \cup {"A", "B", "C", "D", "E", "F"}

\* C28: normalizeRefForTag(ref, sha) is the first 12 characters of sha (all
\* of sha when it is that short) for an empty ref; ref without its leading
\* refs/heads/ or refs/tags/ when it has one; the first 12 characters of
\* ref when ref is 40 hexadecimal characters; and ref itself otherwise.
C28_NormalizeRefForTag ==
    "normalizeRefForTag" \in callDone =>
        LET ref == callIn.ref
            out == callOut.normalized
        IN  /\ ref = <<>> => out = FirstChars(callIn.commitSHA, 12)
            /\ HasRefPrefix(ref) => <<ref[1]>> \o out = ref
            /\ IsCommitSha(ref) => out = FirstChars(ref, 12) /\ Len(out) = 12
            /\ (ref # <<>> /\ ~HasRefPrefix(ref) /\ ~IsCommitSha(ref)) => out = ref

C28_Witness ==
    /\ "normalizeRefForTag" \in callDone
    /\ callIn.ref = SubSeq(Sha40, 1, 39)
    /\ callOut.normalized = callIn.ref

\* the run has made its template context (line 84)
HasTemplateContext ==
    /\ Len(stages) >= 5
    /\ stages[5] = "ConfigValidated"
    /\ ppc # "render"

\* C29: the BRANCH of the template context of a run is its working ref
\* without a leading refs/heads/ or refs/tags/; it is empty when the working
\* ref is empty or is 40 hexadecimal characters; any other working ref is
\* BRANCH as it is.
C29_BranchFromWorkingRef ==
    HasTemplateContext =>
        pctx.BRANCH = IF workRef = <<>> \/ IsCommitSha(workRef) THEN <<>>
                      ELSE IF HasRefPrefix(workRef) THEN Tail(workRef)
                      ELSE workRef

C29_Witness ==
    /\ ppc = "returned"
    /\ perr = ""
    /\ ev.ref = <<>>
    /\ workRef = Sha40
    /\ pctx.BRANCH = <<>>
    /\ pctx.COMMIT_SHA = Sha40

(***************************************************************************)
(* Part 7.  Two runs of HandlePushEvent at the same time, for two push     *)
(* events of the connection's repository.  Modelled are the statements     *)
(* that touch the workspace: os.MkdirTemp, the clone into it, the reads of *)
(* nimbul.yaml, of the build contexts and of the manifests under it, and   *)
(* the deferred removal.  Every other variable of a run is a local of its  *)
(* call; the runs meet in the file system only.                            *)
(***************************************************************************)
Runs == {1, 2}

Other(r) == IF r = 1 THEN 2 ELSE 1

\* the names os.MkdirTemp("", "nimbul-build-<ID>-*") can give a directory
DirNames == {"nimbul-build-c1-1", "nimbul-build-c1-2", "nimbul-build-c1-3"}

NoDir == [exists |-> FALSE, commit |-> "", yaml |-> ""]

\* what a clone at the event's commit puts into the directory
Checkout(event) == [exists |-> TRUE, commit |-> event.commit, yaml |-> event.yaml]

InitRuns ==
    /\ fs = [n \in DirNames |-> NoDir]
    /\ \E y1, y2 \in {"good", "malformed"} :
          runs = [r \in Runs |->
                     [event |-> [commit |-> IF r = 1 THEN "commit-1" ELSE "commit-2",
                                 yaml |-> IF r = 1 THEN y1 ELSE y2],
                      at |-> "mkdir", tempDir |-> "", read |-> <<>>, err |-> ""]]
    /\ OverridesIdle
    /\ ValidateIdle
    /\ TemplateIdle
    /\ RenderIdle
    /\ PipelineIdle
    /\ HelpersIdle
    /\ ParseIdle

\* variant: the workspace is a directory named after the connection alone
RunMakeTempDir_fixedName(r) ==
    /\ runs[r].at = "mkdir"
    /\ fs' = [fs EXCEPT !["nimbul-build-c1-1"] = [@ EXCEPT !.exists = TRUE]]
    /\ runs' = [runs EXCEPT ![r].tempDir = "nimbul-build-c1-1", ![r].at = "clone"]
    /\ UNCHANGED besidesRuns

\* service.go lines 55-63: os.MkdirTemp makes a directory that did not
\* exist, or fails
RunMakeTempDir(r) ==
    /\ runs[r].at = "mkdir"
    /\ \/ \E n \in DirNames :
             /\ ~fs[n].exists
             /\ fs' = [fs EXCEPT ![n] = [NoDir EXCEPT !.exists = TRUE]]
             /\ runs' = [runs EXCEPT ![r].tempDir = n, ![r].at = "clone"]
       \/ /\ runs' = [runs EXCEPT ![r].err = "failed to create temp directory",
                                  ![r].at = "returned"]
          /\ fs' = fs
    /\ UNCHANGED besidesRuns

\* lines 66-68: the clone of the event's ref into tempDir
RunClone(r) ==
    /\ runs[r].at = "clone"
    /\ \/ /\ fs' = [fs EXCEPT ![runs[r].tempDir] = Checkout(runs[r].event)]
          /\ runs' = [runs EXCEPT ![r].at = "parse"]
       \/ /\ runs' = [runs EXCEPT ![r].err = "failed to clone repository",
                                  ![r].at = "deferred"]
          /\ fs' = fs
    /\ UNCHANGED besidesRuns

\* lines 70-75: ParseFile(filepath.Join(tempDir, "nimbul.yaml"))
RunParseFile(r) ==
    /\ runs[r].at = "parse"
    /\ LET dir == fs[runs[r].tempDir]
       IN  runs' = [runs EXCEPT
                       ![r].read = Append(@, dir),
                       ![r].err = IF dir.exists /\ dir.yaml = "good" THEN @
                                  ELSE "failed to parse nimbul.yaml",
                       ![r].at = IF dir.exists /\ dir.yaml = "good" THEN "work"
                                 ELSE "deferred"]
    /\ fs' = fs
    /\ UNCHANGED besidesRuns

\* lines 93-172: the builds read their contexts and the deploys read their
\* manifests under tempDir; the builder is made per run (line 93)
RunBuildAndDeploy(r) ==
    /\ runs[r].at = "work"
    /\ LET dir == fs[runs[r].tempDir]
       IN  \E outcome \in {"", "failed to build Docker image", "failed to apply manifest"} :
              runs' = [runs EXCEPT
                          ![r].read = Append(@, dir),
                          ![r].err = IF dir.exists THEN outcome
                                     ELSE "failed to build Docker image",
                          ![r].at = "deferred"]
    /\ fs' = fs
    /\ UNCHANGED besidesRuns

\* lines 59-63 and clone.go 81-83: os.RemoveAll(tempDir) as the run returns
RunCleanup(r) ==
    /\ runs[r].at = "deferred"
    /\ fs' = [fs EXCEPT ![runs[r].tempDir] = NoDir]
    /\ runs' = [runs EXCEPT ![r].at = "returned"]
    /\ UNCHANGED besidesRuns

NextRuns ==
    \E r \in Runs :
        \/ RunMakeTempDir(r) \/ RunClone(r) \/ RunParseFile(r)
        \/ RunBuildAndDeploy(r) \/ RunCleanup(r)

SpecRuns == InitRuns /\ [][NextRuns]_vars

(***************************************************************************)
(* Claims about concurrent runs.                                           *)
(***************************************************************************)
\* the run has made its workspace and has not yet removed it
HoldsWorkspace(r) == runs[r].at \in {"clone", "parse", "work", "deferred"}

\* the errors a run for the event can return when it runs alone ("" is nil)
AloneOutcomes(event) ==
    {"failed to create temp directory", "failed to clone repository"}
    \cup (IF event.yaml = "good"
          THEN {"", "failed to build Docker image", "failed to apply manifest"}
          ELSE {"failed to parse nimbul.yaml"})

\* C30: two runs that hold a workspace at the same time hold different
\* directories; a run's workspace exists for as long as the run holds it,
\* whatever the other run removes, and between clone and removal it holds
\* the checkout of the run's own commit; every file a run has read is of
\* its own commit; and a run returns what a run for its event can return
\* alone.
C30_RunsAreIndependent ==
    /\ (HoldsWorkspace(1) /\ HoldsWorkspace(2)) => runs[1].tempDir # runs[2].tempDir
    /\ \A r \in Runs :
          /\ HoldsWorkspace(r) => fs[runs[r].tempDir].exists
          /\ runs[r].at \in {"parse", "work"} =>
                fs[runs[r].tempDir] = Checkout(runs[r].event)
          /\ \A k \in 1..Len(runs[r].read) : runs[r].read[k] = Checkout(runs[r].event)
          /\ runs[r].at = "returned" => runs[r].err \in AloneOutcomes(runs[r].event)
          /\ (runs[r].at = "returned" /\ runs[r].read # <<>>) =>
                (runs[r].err = "failed to parse nimbul.yaml")
                    = (runs[r].event.yaml = "malformed")

C30_Witness ==
    /\ runs[1].at = "deferred"
    /\ Len(runs[1].read) = 2
    /\ runs[1].err = ""
    /\ runs[2].at = "work"
    /\ runs[2].read = <<Checkout(runs[2].event)>>
    /\ runs[1].tempDir # runs[2].tempDir

(***************************************************************************)
(* Part 8.  The remaining claims about HandlePushEvent: cancellation and   *)
(* the working ref.                                                        *)
(***************************************************************************)

\* the external calls the run hands ctx to: the clone, an image build, a
\* cluster apply
Boundaries == {"clone", "build", "apply"}

\* the boundary calls made after ctx was done
AfterCancel == {k \in (cancelAt + 1)..Len(log) : log[k].op \in Boundaries}

RefResolved == \E k \in 1..Len(stages) : stages[k] = "RepoResolved"

\* C34: the working ref of a run is the event's ref when it carries one, and
\* otherwise the head-commit value the run requires (commitSHA); the clone
\* is asked for that ref and BRANCH is derived from it.
C34_WorkingRefIsHeadCommit ==
    RefResolved =>
        /\ workRef = (IF ev.ref = <<>> THEN pcommit ELSE ev.ref)
        /\ \A k \in 1..Len(log) : log[k].op = "clone" => log[k].arg = workRef
        /\ HasTemplateContext => pctx.BRANCH = extractBranch(workRef)

(***************************************************************************)
(* Part 9.  The remaining claims about the override engine.                *)
(***************************************************************************)

\* C32: parsePath splits the path of every override handed to
\* setValueAtPath into its dot-separated segments with each bracketed index
\* as a segment of its own: key[n] gives the two segments key and [n], and
\* spec.template.spec.containers[0].image gives the six segments spec,
\* template, spec, containers, [0], image.
C32_BracketIsOwnSegment ==
    \A c \in Range(calls) :
        LET path == overrides[c[2]].Path
        IN  /\ parsePath(path) = SpecSegments(path)
            /\ path = ImagePath =>
                   parsePath(path) = << <<"spec">>, <<"template">>, <<"spec">>, <<"containers">>,
                                        <<"[", "0", "]">>, <<"image">> >>

\* navigateTo as setValueAtPath calls it, on the segments parsePath returns:
\* in every call with a mapping-key segment on a mapping, a key that is
\* absent gets a new empty mapping, which is what the call returns (the next
\* segment is applied to it) and which the document holds at that place
\* afterwards; a key that is present is followed, and the call changes
\* nothing.
NavigateToCreatesMissingKeys ==
    [][ (inLoop /\ calls' # calls) =>
          LET parts == parsePath(overrides[oi].Path)
              navs == navigations(docs[di], parts)
          IN  \A k \in 1..Len(navs) :
                 LET n == navs[k]
                     key == Join(n.segment)
                     before == ValueAt(docs[di], SubSeq(parts, 1, k))
                     after == ValueAt(docs'[di], SubSeq(parts, 1, k))
                 IN  (~isIndexSegment(n.segment) /\ IsMap(n.current)) =>
                        /\ n.nav.err = NoErr
                        /\ k < Len(navs) => navs[k + 1].current = n.nav.value
                        /\ IF key \in DOMAIN n.current.v
                           THEN /\ n.nav.value = n.current.v[key]
                                /\ n.nav.cur = n.current
                                /\ before = n.current.v[key]
                                /\ IsMap(before) => IsMap(after)
                           ELSE /\ n.nav.value = EmptyMap
                                /\ n.nav.cur = MapPut(n.current, key, EmptyMap)
                                /\ before = Absent
                                /\ IsMap(after) ]_vars

\* the value that following segs from x arrives at when every missing key
\* on the way is taken as a new empty mapping; Absent when a segment does
\* not fit the value it is applied to
RECURSIVE SpecNavigate(_, _)
SpecNavigate(x, segs) ==
    IF segs = <<>> THEN x
    ELSE LET s == Head(segs)
         IN  IF IsIndex(s)
             THEN IF IsSeq(x) /\ IndexOf(s) >= 0 /\ IndexOf(s) < Len(x.v)
                  THEN SpecNavigate(x.v[IndexOf(s) + 1], Tail(segs))
                  ELSE Absent
             ELSE IF ~IsMap(x) THEN Absent
                  ELSE IF Join(s) \in DOMAIN x.v
                       THEN SpecNavigate(x.v[Join(s)], Tail(segs))
                       ELSE SpecNavigate(EmptyMap, Tail(segs))

\* C35: when an override is applied to a document, every non-final
\* mapping-key segment of its path that navigation reaches in a mapping
\* without that key leaves a mapping at that key in the document; a key
\* that is present is followed and what it holds is not replaced.
C35_MissingKeysAreCreated ==
    [][ (inLoop /\ calls' # calls) =>
          LET segs == SpecSegments(overrides[oi].Path)
          IN  \A k \in 1..(Len(segs) - 1) :
                 LET current == SpecNavigate(docs[di], SubSeq(segs, 1, k - 1))
                     key == Join(segs[k])
                     after == ValueAt(docs'[di], SubSeq(segs, 1, k))
                 IN  (~IsIndex(segs[k]) /\ IsMap(current)) =>
                        IF key \in DOMAIN current.v
                        THEN /\ IsMap(current.v[key]) => IsMap(after)
                             /\ IsSeq(current.v[key]) => IsSeq(after)
                             /\ ~(IsMap(current.v[key]) \/ IsSeq(current.v[key]))
                                   => after = current.v[key]
                        ELSE IsMap(after) ]_vars

\* C36: an override fails with a type error, and leaves the value in
\* question as it is, when navigation or the final assignment applies a
\* mapping-key segment of its path to a value that is not a mapping, or a
\* bracket segment to a value that is not a sequence.
C36_TypeMismatchFails ==
    [][ (inLoop /\ calls' # calls) =>
          LET segs == SpecSegments(overrides[oi].Path)
          IN  \A k \in 1..Len(segs) :
                 LET current == SpecNavigate(docs[di], SubSeq(segs, 1, k - 1))
                 IN  ( /\ current # Absent
                       /\ IF IsIndex(segs[k]) THEN ~IsSeq(current) ELSE ~IsMap(current) )
                     => /\ err'.kind = "type"
                        /\ ValueAt(docs'[di], SubSeq(segs, 1, k - 1)) = current ]_vars

\* C39: when an override fails on a matched document, nothing the document
\* held is taken back or changed, and every mapping that navigation made
\* for a missing key before the failing segment is in the document
\* afterwards, which therefore differs from what it was.
C39_SynthesizedMappingsRemain ==
    [][ (inLoop /\ calls' # calls /\ err' # NoErr) =>
          LET segs == SpecSegments(overrides[oi].Path)
          IN  /\ Extends(docs'[di], docs[di])
              /\ \A k \in 1..(Len(segs) - 1) :
                    LET current == SpecNavigate(docs[di], SubSeq(segs, 1, k - 1))
                    IN  ( /\ ~IsIndex(segs[k])
                          /\ IsMap(current)
                          /\ Join(segs[k]) \notin DOMAIN current.v )
                        => /\ IsMap(ValueAt(docs'[di], SubSeq(segs, 1, k)))
                           /\ docs'[di] # docs[di] ]_vars

\* an override for spec.template.spec.containers.[5].image failed with a
\* type error on a document that had no spec.template: the document now
\* holds template, spec and containers, three new mappings
C39_Witness ==
    /\ pc = "returned"
    /\ err = TypeErr("array")
    /\ Len(docs) = 1
    /\ Len(calls) = 2
    /\ overrides[calls[2][2]].Path = FarImagePath
    /\ Field(Field(docs0[1], "spec"), "template") = Absent
    /\ Field(Field(docs[1], "spec"), "template") = Map([spec |-> Map([containers |-> EmptyMap])])

(***************************************************************************)
(* Part 10.  The order in which Validate reports.                          *)
(***************************************************************************)

\* the rules of the validator by class: 1 a required field is missing, 2 a
\* name is used twice, 3 a buildId names no build, 4 a manifest or an
\* override of the object is invalid
ClassOf(e) ==
    IF Scope(e) \in {"manifest", "override"} THEN 4
    ELSE IF e.msg = "does not reference an existing build" THEN 3
    ELSE IF e.msg \in {"duplicate build name", "duplicate deploy name"} THEN 2
    ELSE 1

NamesBefore(objects, i) == {objects[j].Name : j \in 1..(i - 1)}

InvalidOverride(o) ==
    o.Path = <<>> \/ o.Value = "" \/ (o.Match.Kind # "" /\ ~Recognized(o.Match.Kind))

InvalidManifest(m) == m.Path = "" \/ \E o \in Range(m.Overrides) : InvalidOverride(o)

\* the classes of rules that build i, deploy i of c violates
BuildClasses(c, i) ==
    LET b == c.Build[i]
    IN  {k \in 1..4 :
            \/ k = 1 /\ (b.Name = "" \/ b.Dockerfile = "" \/ b.Tags = <<>>)
            \/ k = 2 /\ b.Name \in NamesBefore(c.Build, i)}

DeployClasses(c, i) ==
    LET dp == c.Deploy[i]
    IN  {k \in 1..4 :
            \/ k = 1 /\ (dp.Name = "" \/ dp.BuildID = "" \/ dp.Manifests = <<>>)
            \/ k = 2 /\ dp.Name \in NamesBefore(c.Deploy, i)
            \/ k = 3 /\ dp.BuildID # "" /\ dp.BuildID \notin BuildNamesOf(c)
            \/ k = 4 /\ \E m \in Range(dp.Manifests) : InvalidManifest(m)}

Least(S) == CHOOSE k \in S : \A j \in S : k <= j

\* the object an error is about: <<"build", i>> or <<"deploy", i>>, counted
\* from 1
ObjectOf(e) == <<e.at[1], e.at[2] + 1>>

\* no build of c violates a rule
BuildsValid(c) == \A i \in 1..Len(c.Build) : BuildClasses(c, i) = {}

\* C33 as written: Validate reports the first object that violates a rule,
\* builds before deploys, each list in order, and for that object a rule of
\* the first class it violates in the order required field, name
\* uniqueness, cross-reference, nested checks.
C33_RequiredFieldsFirst ==
    (vpc = "returned" /\ verr # NoVErr /\ Scope(verr) # "config") =>
        LET kind == ObjectOf(verr)[1]
            i == ObjectOf(verr)[2]
            classes == IF kind = "build" THEN BuildClasses(cfg, i) ELSE DeployClasses(cfg, i)
        IN  /\ kind = "deploy" => BuildsValid(cfg)
            /\ \A j \in 1..(i - 1) :
                  (IF kind = "build" THEN BuildClasses(cfg, j) ELSE DeployClasses(cfg, j)) = {}
            /\ classes # {}
            /\ ClassOf(verr) = Least(classes)

\* the rules in the order validateBuild and validateDeploy are claimed to
\* report them, as <<violated, message>>
BuildRules(c, i) ==
    LET b == c.Build[i]
    IN  << <<b.Name = "", "name is required">>,
           <<b.Name \in NamesBefore(c.Build, i), "duplicate build name">>,
           <<b.Dockerfile = "", "dockerfile is required">>,
           <<b.Tags = <<>>, "at least one tag is required">> >>

DeployRules(c, i) ==
    LET dp == c.Deploy[i]
    IN  << <<dp.Name = "", "name is required">>,
           <<dp.Name \in NamesBefore(c.Deploy, i), "duplicate deploy name">>,
           <<dp.BuildID = "", "buildId is required">>,
           <<dp.BuildID \notin BuildNamesOf(c), "does not reference an existing build">>,
           <<dp.Manifests = <<>>, "at least one manifest is required">>,
           <<\E m \in Range(dp.Manifests) : InvalidManifest(m), "nested">> >>

\* the message of the first violated rule, "" when none is
RECURSIVE FirstViolated(_)
FirstViolated(rules) ==
    IF rules = <<>> THEN ""
    ELSE IF Head(rules)[1] THEN Head(rules)[2] ELSE FirstViolated(Tail(rules))

\* C33 amended: Validate reports the first object that violates a rule,
\* builds before deploys, each list in order, and for that object the first
\* violated rule in this order.  Build: name present, name not used by an
\* earlier build, dockerfile present, at least one tag.  Deploy: name
\* present, name not used by an earlier deploy, buildId present, buildId
\* names a build, at least one manifest, then the manifests and their
\* overrides.
C33_RulesInCodeOrder ==
    (vpc = "returned" /\ verr # NoVErr /\ Scope(verr) # "config") =>
        LET kind == ObjectOf(verr)[1]
            i == ObjectOf(verr)[2]
            first == IF kind = "build" THEN FirstViolated(BuildRules(cfg, i))
                     ELSE FirstViolated(DeployRules(cfg, i))
        IN  /\ kind = "deploy" => BuildsValid(cfg)
            /\ \A j \in 1..(i - 1) :
                  (IF kind = "build" THEN BuildClasses(cfg, j) ELSE DeployClasses(cfg, j)) = {}
            /\ first # ""
            /\ IF first = "nested" THEN Scope(verr) \in {"manifest", "override"}
               ELSE Scope(verr) = kind /\ verr.msg = first

\* a second build that repeats the first one's name and has no dockerfile
\* is reported for the name
C33_Witness ==
    /\ vpc = "returned"
    /\ Len(cfg.Build) = 2
    /\ cfg.Build[2].Name = cfg.Build[1].Name
    /\ cfg.Build[2].Dockerfile = ""
    /\ verr = VErr(<<"build", 1>>, "duplicate build name")

(***************************************************************************)
(* Part 11.  The shape of what RenderConfig returns.                       *)
(***************************************************************************)

\* C38: a config that RenderConfig returns has the version of its input and
\* as many builds, deploys, manifests, tags and overrides, in the same
\* order: at every position the build's name, dockerfile and context, the
\* deploy's name and buildId, the manifest's path and the override's path
\* and match are those of the input.
C38_SameStructure ==
    (rpc = "returned" /\ ~rres.nil) =>
        LET out == rres.config
        IN  /\ out.Version = rconfig.Version
            /\ Len(out.Build) = Len(rconfig.Build)
            /\ Len(out.Deploy) = Len(rconfig.Deploy)
            /\ \A i \in 1..Len(rconfig.Build) :
                  /\ out.Build[i].Name = rconfig.Build[i].Name
                  /\ out.Build[i].Dockerfile = rconfig.Build[i].Dockerfile
                  /\ out.Build[i].Context = rconfig.Build[i].Context
                  /\ Len(heap[out.Build[i].Tags]) = Len(heap[rconfig.Build[i].Tags])
            /\ \A i \in 1..Len(rconfig.Deploy) :
                  /\ out.Deploy[i].Name = rconfig.Deploy[i].Name
                  /\ out.Deploy[i].BuildID = rconfig.Deploy[i].BuildID
                  /\ Len(out.Deploy[i].Manifests) = Len(rconfig.Deploy[i].Manifests)
                  /\ \A j \in 1..Len(rconfig.Deploy[i].Manifests) :
                        LET m == rconfig.Deploy[i].Manifests[j]
                            n == out.Deploy[i].Manifests[j]
                        IN  /\ n.Path = m.Path
                            /\ Len(n.Overrides) = Len(m.Overrides)
                            /\ \A k \in 1..Len(m.Overrides) :
                                  /\ n.Overrides[k].Path = m.Overrides[k].Path
                                  /\ n.Overrides[k].Match = m.Overrides[k].Match

\* a returned config with two builds and two different deploys in which a
\* tag and an override value are not what they were
C38_Witness ==
    /\ rpc = "returned"
    /\ ~rres.nil
    /\ Len(rconfig.Build) = 2
    /\ Len(rconfig.Deploy) = 2
    /\ rconfig.Deploy[1] # rconfig.Deploy[2]
    /\ heap[rres.config.Build[1].Tags] # heap[rconfig.Build[1].Tags]
    /\ rres.config.Deploy[1].Manifests[1].Overrides[1].Value
          # rconfig.Deploy[1].Manifests[1].Overrides[1].Value

(***************************************************************************)
(* Part 12.  Kind names in the validator and in the override engine.       *)
(***************************************************************************)

\* kind is one of the ten names in another spelling of letter case
CaseVariant(kind) == kind \notin TenKinds /\ Recognized(kind)

\* C40: an override whose Match.Kind is a recognized kind name in another
\* letter case passes validateOverride, yet ApplyOverrides never hands it
\* to setValueAtPath for a document whose kind is one of the ten names as
\* they are spelled; a call whose overrides are all of this kind leaves
\* such documents as they were, and a call that applied nothing returns
\* nil, which the pipeline takes as success.
C40_KindCaseDisagreement ==
    /\ \A k \in 1..Len(overrides) :
          CaseVariant(overrides[k].Match.Kind) =>
              /\ validateOverride(overrides[k], k - 1) = NoVErr
              /\ \A i \in 1..Len(docs) :
                    (\E canon \in TenKinds : Field(docs0[i], "kind") = Str(canon))
                    => <<i, k>> \notin Range(calls)
    /\ (\A k \in 1..Len(overrides) : CaseVariant(overrides[k].Match.Kind)) =>
          \A i \in 1..Len(docs) :
              (\E canon \in TenKinds : Field(docs0[i], "kind") = Str(canon))
              => docs[i] = docs0[i]
    /\ (pc = "returned" /\ calls = <<>>) => err = NoErr

\* ApplyOverrides returned nil for a Deployment and a Service with one
\* override for kind "deployment", and changed nothing
C40_Witness ==
    /\ pc = "returned"
    /\ err = NoErr
    /\ Len(docs) = 2
    /\ Len(overrides) = 1
    /\ overrides[1].Match.Kind = "deployment"
    /\ validateOverride(overrides[1], 0) = NoVErr
    /\ Field(docs0[1], "kind") = Str("Deployment")
    /\ Field(docs0[2], "kind") = Str("Service")
    /\ calls = <<>>
    /\ docs = docs0

(***************************************************************************)
(* Part 13.  ParseManifestBytes(data).  The bytes are modelled as a        *)
(* sequence of pieces: "-" (one dash), "\n" (a line break), "a: 1" (a      *)
(* mapping entry), "x" (a character of a plain scalar) and "# c" (a        *)
(* comment).  Concatenating the pieces gives the text.                     *)
(***************************************************************************)
MaxChars == 7

Pieces == {"-", "\n", "a: 1", "x", "# c"}

\* strings.Split(s, "---"): s cut at every occurrence of three dashes, from
\* the left, the occurrences not overlapping; acc is the part being read
RECURSIVE splitFrom(_, _, _)
splitFrom(s, i, acc) ==
    IF i > Len(s) THEN <<acc>>
    ELSE IF i + 2 <= Len(s) /\ s[i] = "-" /\ s[i + 1] = "-" /\ s[i + 2] = "-"
         THEN <<acc>> \o splitFrom(s, i + 3, <<>>)
    ELSE splitFrom(s, i + 1, Append(acc, s[i]))

Split(s) == splitFrom(s, 1, <<>>)

\* strings.TrimSpace: the line break is the only white space of the model
RECURSIVE TrimSpace(_)
TrimSpace(s) ==
    IF s = <<>> THEN s
    ELSE IF Head(s) = "\n" THEN TrimSpace(Tail(s))
    ELSE IF s[Len(s)] = "\n" THEN TrimSpace(SubSeq(s, 1, Len(s) - 1))
    ELSE s

\* the lines of s
RECURSIVE linesFrom(_, _, _)
linesFrom(s, i, acc) ==
    IF i > Len(s) THEN <<acc>>
    ELSE IF s[i] = "\n" THEN <<acc>> \o linesFrom(s, i + 1, <<>>)
    ELSE linesFrom(s, i + 1, Append(acc, s[i]))

Lines(s) == linesFrom(s, 1, <<>>)

\* yaml.Unmarshal([]byte(doc), &parsedDoc) on the texts of the model.  Empty
\* lines and comment lines hold nothing; a text that holds nothing leaves
\* parsedDoc nil.  One line `a: 1` followed by characters of its plain
\* scalar is a mapping with the key a.  Everything else is an error: a
\* line that is a scalar or a sequence cannot be decoded into a map, a
\* second line with the key a is a duplicate key, ": " inside a plain scalar
\* is not allowed.
Unmarshal(text) ==
    LET ls == Lines(text)
        content == {k \in 1..Len(ls) : ls[k] # <<>> /\ ls[k][1] # "# c"}
        entry(l) == l[1] = "a: 1" /\ \A k \in 2..Len(l) : l[k] # "a: 1"
    IN  IF content = {} THEN [err |-> FALSE, nil |-> TRUE, doc |-> <<>>]
        ELSE IF Cardinality(content) = 1 /\ \A k \in content : entry(ls[k])
             THEN [err |-> FALSE, nil |-> FALSE, doc |-> ls[CHOOSE k \in content : TRUE]]
        ELSE [err |-> TRUE, nil |-> FALSE, doc |-> <<>>]

InitParse ==
    /\ data \in SeqsUpTo(Pieces, MaxChars)
    /\ documents = <<>>
    /\ mi = 1
    /\ decoded = <<>>
    /\ parsed = <<>>
    /\ merr = -1
    /\ mpc = "split"
    /\ OverridesIdle
    /\ ValidateIdle
    /\ TemplateIdle
    /\ RenderIdle
    /\ PipelineIdle
    /\ HelpersIdle
    /\ RunsIdle

\* line 34
SplitDocuments ==
    /\ mpc = "split"
    /\ documents' = Split(data)
    /\ mpc' = "loop"
    /\ UNCHANGED <<data, mi, decoded, parsed, merr, besidesParse>>

\* lines 38-41: the trimmed text is empty, continue
SkipBlank ==
    /\ mpc = "loop"
    /\ mi <= Len(documents)
    /\ TrimSpace(documents[mi]) = <<>>
    /\ mi' = mi + 1
    /\ UNCHANGED <<data, documents, decoded, parsed, merr, mpc, besidesParse>>

\* lines 43-46: yaml.Unmarshal fails, the call returns nil and the error
\* with the index i
DecodeFail ==
    /\ mpc = "loop"
    /\ mi <= Len(documents)
    /\ TrimSpace(documents[mi]) # <<>>
    /\ Unmarshal(TrimSpace(documents[mi])).err
    /\ decoded' = Append(decoded, TrimSpace(documents[mi]))
    /\ parsed' = <<>>
    /\ merr' = mi - 1
    /\ mpc' = "returned"
    /\ UNCHANGED <<data, documents, mi, besidesParse>>

\* lines 48-50: parsedDoc is nil, continue
SkipNil ==
    /\ mpc = "loop"
    /\ mi <= Len(documents)
    /\ TrimSpace(documents[mi]) # <<>>
    /\ Unmarshal(TrimSpace(documents[mi])).nil
    /\ decoded' = Append(decoded, TrimSpace(documents[mi]))
    /\ mi' = mi + 1
    /\ UNCHANGED <<data, documents, parsed, merr, mpc, besidesParse>>

\* line 52: result = append(result, parsedDoc)
AppendDocument ==
    /\ mpc = "loop"
    /\ mi <= Len(documents)
    /\ TrimSpace(documents[mi]) # <<>>
    /\ LET u == Unmarshal(TrimSpace(documents[mi]))
       IN  /\ ~u.err /\ ~u.nil
           /\ parsed' = Append(parsed, u.doc)
    /\ decoded' = Append(decoded, TrimSpace(documents[mi]))
    /\ mi' = mi + 1
    /\ UNCHANGED <<data, documents, merr, mpc, besidesParse>>

\* line 55: return result, nil
ParseReturn ==
    /\ mpc = "loop"
    /\ mi > Len(documents)
    /\ mpc' = "returned"
    /\ UNCHANGED <<data, documents, mi, decoded, parsed, merr, besidesParse>>

NextParse ==
    SplitDocuments \/ SkipBlank \/ DecodeFail \/ SkipNil \/ AppendDocument \/ ParseReturn

SpecParse == InitParse /\ [][NextParse]_vars

\* a line that consists of three dashes
SeparatorLine == <<"-", "-", "-">>

\* the lines of ls joined by line breaks
RECURSIVE JoinLines(_)
JoinLines(ls) ==
    IF ls = <<>> THEN <<>>
    ELSE IF Len(ls) = 1 THEN ls[1]
    ELSE ls[1] \o <<"\n">> \o JoinLines(Tail(ls))

\* the texts between the separator lines of ls, acc being the lines of the
\* text that is being read
RECURSIVE segmentsFrom(_, _)
segmentsFrom(ls, acc) ==
    IF ls = <<>> THEN <<JoinLines(acc)>>
    ELSE IF Head(ls) = SeparatorLine THEN <<JoinLines(acc)>> \o segmentsFrom(Tail(ls), <<>>)
    ELSE segmentsFrom(Tail(ls), Append(acc, Head(ls)))

RECURSIVE NonBlank(_)
NonBlank(texts) ==
    IF texts = <<>> THEN <<>>
    ELSE IF TrimSpace(Head(texts)) = <<>> THEN NonBlank(Tail(texts))
    ELSE <<TrimSpace(Head(texts))>> \o NonBlank(Tail(texts))

\* the non-blank texts between the separator lines of s, in order
LineSegments(s) == NonBlank(segmentsFrom(Lines(s), <<>>))

\* a text that holds more than empty lines and comments
HasContent(text) ==
    \E k \in 1..Len(Lines(text)) : Lines(text)[k] # <<>> /\ Lines(text)[k][1] # "# c"

\* the number of texts of the sequence that hold content
RECURSIVE CountContent(_)
CountContent(texts) ==
    IF texts = <<>> THEN 0
    ELSE (IF HasContent(Head(texts)) THEN 1 ELSE 0) + CountContent(Tail(texts))

\* C37: the texts ParseManifestBytes decodes are, in order, the non-blank
\* texts between the lines consisting of ---: three dashes inside a line
\* split nothing, and when the call returns without error it has decoded
\* each of these texts and returns one document for each of them that holds
\* content.
C37_SplitAtSeparatorLinesOnly ==
    /\ Len(decoded) <= Len(LineSegments(data))
    /\ \A k \in 1..Len(decoded) : decoded[k] = LineSegments(data)[k]
    /\ (mpc = "returned" /\ merr = -1) =>
          /\ decoded = LineSegments(data)
          /\ Len(parsed) = CountContent(LineSegments(data))

====
